---------------------------- MODULE Spec2Model ----------------------------
(***************************************************************************)
(* Verification model of the testability scorers of this repository:       *)
(*   ComprehensiveTestabilityAnalyzer  (comprehensive-testability-analyzer.js) *)
(*   AITestabilityScorer               (ai-testability-scorer.js)          *)
(*   QuickTestabilityScorer            (quick scorer spec file)            *)
(*   TestabilityScorer                 (tests/testability-principles.spec.js) *)
(*                                                                         *)
(* A page observation is a record of the values the page.locator(...)      *)
(* .count() and page.evaluate(...) calls return.  Every analysis is an     *)
(* operator over such a record; the field "throws" says whether an awaited *)
(* page call inside the analysis' try block throws.                        *)
(***************************************************************************)
EXTENDS Integers, Sequences, FiniteSets, TLC

(***************************************************************************)
(* Bounds of the model.                                                    *)
(***************************************************************************)
SmallMax == 3
BigCount == 1000
MaxRuns == 2
MaxCalls == 2
ManyDataTest == 30
MaxDataTest == 100

Counts == (0..SmallMax) \cup {BigCount}
ZeroOne == {0, 1}
\* element totals around the thresholds the code compares with
Totals == {0, 99, 100, 199, 200, 201, 499, 500, 501, 999, 1000, 1001}
\* page.content().length around the thresholds 20000, 50000, 100000
ContentSizes == {0, 20000, 20001, 50000, 50001, 100000, 100001}

(***************************************************************************)
(* JavaScript numbers.  The analyzers divide and multiply by 1.5, so a     *)
(* score is an exact rational <<n, d>> with d > 0, kept in lowest terms    *)
(* (binary floating point rounding is not modelled).                       *)
(***************************************************************************)
Min(a, b) == IF a <= b THEN a ELSE b
Max(a, b) == IF a >= b THEN a ELSE b
Abs(a) == IF a < 0 THEN -a ELSE a

RECURSIVE GCD(_, _)
GCD(a, b) == IF b = 0 THEN a ELSE GCD(b, a % b)

Norm(n, d) == IF n = 0 THEN <<0, 1>>
              ELSE LET g == GCD(Abs(n), d) IN <<n \div g, d \div g>>
R(n) == <<n, 1>>
RAdd(x, y) == Norm(x[1] * y[2] + y[1] * x[2], x[2] * y[2])
RLe(x, y) == x[1] * y[2] <= y[1] * x[2]
RLt(x, y) == x[1] * y[2] < y[1] * x[2]
RMin(x, y) == IF RLe(x, y) THEN x ELSE y
\* Math.round: the nearest integer, halves towards +infinity
MathRound(x) == (2 * x[1] + x[2]) \div (2 * x[2])
\* Math.floor(n / d) of integers
FloorDiv(n, d) == n \div d

RECURSIVE SumSeq(_)
SumSeq(s) == IF s = <<>> THEN 0 ELSE Head(s) + SumSeq(Tail(s))
RECURSIVE RSumSeq(_)
RSumSeq(s) == IF s = <<>> THEN R(0) ELSE RAdd(Head(s), RSumSeq(Tail(s)))

(***************************************************************************)
(* The ten principles, in the order the constructors declare them.         *)
(***************************************************************************)
PrincipleOrder == << "observability", "controllability", "algorithmicSimplicity",
                     "algorithmicTransparency", "algorithmicStability",
                     "explainability", "unbugginess", "smallness",
                     "decomposability", "similarity" >>
Principles == { PrincipleOrder[i] : i \in 1..Len(PrincipleOrder) }
\* the five principles the AI and the quick scorer compute
FiveOrder == << "observability", "controllability", "algorithmicSimplicity",
                "explainability", "decomposability" >>
FivePrinciples == { FiveOrder[i] : i \in 1..Len(FiveOrder) }

(***************************************************************************)
(* ComprehensiveTestabilityAnalyzer: the metrics of each analyze* method,  *)
(* in the order the method adds them, then the score it returns.           *)
(***************************************************************************)
analyzeObservabilityMetrics(o) ==
  LET stateScore == (IF o.localStorage > 0 THEN 8 ELSE 0)
                  + (IF o.sessionStorage > 0 THEN 7 ELSE 0)
                  + (IF o.cookies THEN 5 ELSE 0)
                  + (IF o.readyStateComplete THEN 5 ELSE 0)
      dataTestScore == Min(25, FloorDiv(o.dataTestElements * 25, 10))
      errorScore == IF o.errorElements > 0 THEN 20 ELSE 10
      visualScore == Min(15, o.visualElements * 2)
      networkScore == IF o.debugSessionId /\ o.networkRequests > 0 THEN 15 ELSE 5
  IN << R(stateScore), R(dataTestScore), R(errorScore), R(visualScore), R(networkScore) >>

analyzeObservability(o) ==
  IF o.throws THEN R(20) ELSE RSumSeq(analyzeObservabilityMetrics(o))

analyzeControllabilityMetrics(o) ==
  LET inputScore == IF o.inputFields > 0
                    THEN (IF o.fillThrows THEN 10
                          ELSE IF o.valueMatches THEN 30 ELSE 15)
                    ELSE 0
      stateScore == Min(25, o.interactiveElements * 2)
      determinismScore == IF o.sameUrl THEN 25 ELSE 15
      \* Math.min(20, (buttons + links) * 1.5)
      reliabilityScore == RMin(R(20), Norm((o.buttons + o.links) * 3, 2))
  IN << R(inputScore), R(stateScore), R(determinismScore), reliabilityScore >>

analyzeControllability(o) ==
  IF o.throws THEN R(25) ELSE RSumSeq(analyzeControllabilityMetrics(o))

analyzeAlgorithmicSimplicityMetrics(o) ==
  LET clarityScore == IF o.totalElements > 1000 THEN 15
                      ELSE IF o.totalElements > 500 THEN 25
                      ELSE IF o.totalElements > 200 THEN 30 ELSE 35
      complexity == o.forms + o.buttons
      complexityScore == IF complexity < 10 THEN 35
                         ELSE IF complexity < 20 THEN 25 ELSE 15
      predictabilityScore == Min(30, (o.headings * 3) + (o.navigation * 10))
  IN << R(clarityScore), R(complexityScore), R(predictabilityScore) >>

analyzeAlgorithmicSimplicity(o) ==
  IF o.throws THEN R(30) ELSE RSumSeq(analyzeAlgorithmicSimplicityMetrics(o))

analyzeAlgorithmicTransparencyMetrics(o) ==
  LET visibilityScore == Min(40, o.visibleFeedback * 8)
      understandingScore == Min(35, (o.labels * 3) + (o.tooltips * 2))
      blackBoxScore == IF o.consoleErrors = 0 THEN 25
                       ELSE IF o.consoleErrors < 3 THEN 15 ELSE 5
  IN << R(visibilityScore), R(understandingScore), R(blackBoxScore) >>

analyzeAlgorithmicTransparency(o) ==
  IF o.throws THEN R(35) ELSE RSumSeq(analyzeAlgorithmicTransparencyMetrics(o))

analyzeAlgorithmicStabilityMetrics(o) ==
  LET resilienceScore == IF o.initialElementCount = o.reloadElementCount THEN 35 ELSE 20
      \* the page-side loop returns Math.min(35, qualityScore)
      dataTestQuality == Min(35, o.separatorIds * 2 + o.longIds)
      consistencyScore == Min(30, o.consistentElements * 5)
  IN << R(resilienceScore), R(dataTestQuality), R(consistencyScore) >>

analyzeAlgorithmicStability(o) ==
  IF o.throws THEN R(40) ELSE RSumSeq(analyzeAlgorithmicStabilityMetrics(o))

analyzeExplainabilityMetrics(o) ==
  LET clarityScore == Min(35, o.semanticElements * 5)
      \* docScore = min(20, labels*4) + (totalImages > 0 ? min(15, altTexts/totalImages*15) : 0)
      docScore == RAdd(R(Min(20, o.actualLabels * 4)),
                       IF o.totalImages > 0
                       THEN RMin(R(15), Norm(o.altTexts * 15, o.totalImages))
                       ELSE R(0))
      structureScore == Min(30, o.ariaElements * 3)
  IN << R(clarityScore), docScore, R(structureScore) >>

analyzeExplainability(o) ==
  IF o.throws THEN R(25) ELSE RSumSeq(analyzeExplainabilityMetrics(o))

analyzeUnbugginessMetrics(o) ==
  LET errorDeduction == Min(40, (o.jsErrors + o.consoleErrors) * 5)
      errorScore == 40 - errorDeduction
      handlingScore == IF o.errorElements > 0 THEN 35 ELSE 20
      robustnessScore == 25 - Min(25, o.brokenImages * 5)
  IN << R(errorScore), R(handlingScore), R(robustnessScore) >>

\* the unbugginess score without the points given for the absence of script
\* errors and of broken images
analyzeUnbugginessHandlingOnly(o) ==
  IF o.throws THEN R(60) ELSE analyzeUnbugginessMetrics(o)[2]

analyzeUnbugginess(o) ==
  IF o.throws THEN R(60)
  ELSE LET totalScore == RSumSeq(analyzeUnbugginessMetrics(o))
       IN IF RLt(totalScore, R(0)) THEN R(0) ELSE totalScore

analyzeSmallnessMetrics(o) ==
  LET sizeScore == IF o.totalElements > 1000 THEN 10
                   ELSE IF o.totalElements > 500 THEN 20
                   ELSE IF o.totalElements > 200 THEN 30 ELSE 40
      scopeScore == Min(35, o.testableElements * 3)
      managementScore == IF o.contentSize > 100000 THEN 10
                         ELSE IF o.contentSize > 50000 THEN 15
                         ELSE IF o.contentSize > 20000 THEN 20 ELSE 25
  IN << R(sizeScore), R(scopeScore), R(managementScore) >>

analyzeSmallness(o) ==
  IF o.throws THEN R(45) ELSE RSumSeq(analyzeSmallnessMetrics(o))

analyzeDecomposabilityMetrics(o) ==
  LET separationScore == Min(40, o.containers * 2)
      isolationScore == Min(35, (o.isolatedElements * 2) + (o.forms * 5))
      modularScore == Min(25, FloorDiv(o.modules, 3))
  IN << R(separationScore), R(isolationScore), R(modularScore) >>

analyzeDecomposability(o) ==
  IF o.throws THEN R(50) ELSE RSumSeq(analyzeDecomposabilityMetrics(o))

analyzeSimilarityMetrics(o) ==
  LET patternScore == Min(40, (o.buttons * 2) + (o.forms * 5)
                              + (o.navigation * 8) + (o.headings * 1))
      techScore == (IF o.html5 THEN 10 ELSE 0) + (IF o.css THEN 8 ELSE 0)
                 + (IF o.javascript THEN 7 ELSE 0) + (IF o.formControls THEN 10 ELSE 0)
      conventionScore == (IF o.header THEN 7 ELSE 0) + (IF o.footer THEN 5 ELSE 0)
                       + (IF o.main THEN 8 ELSE 0) + (IF o.breadcrumbs THEN 5 ELSE 0)
  IN << R(patternScore), R(techScore), R(conventionScore) >>

analyzeSimilarity(o) ==
  IF o.throws THEN R(55) ELSE RSumSeq(analyzeSimilarityMetrics(o))

\* the point budget each analyze* method declares for its metrics (its comments)
CompleteBudgets ==
  [ observability |-> <<25, 25, 20, 15, 15>>,
    controllability |-> <<30, 25, 25, 20>>,
    algorithmicSimplicity |-> <<35, 35, 30>>,
    algorithmicTransparency |-> <<40, 35, 25>>,
    algorithmicStability |-> <<35, 35, 30>>,
    explainability |-> <<35, 35, 30>>,
    unbugginess |-> <<40, 35, 25>>,
    smallness |-> <<40, 35, 25>>,
    decomposability |-> <<40, 35, 25>>,
    similarity |-> <<40, 35, 25>> ]


(***************************************************************************)
(* AITestabilityScorer.  A data-test element is the record                 *)
(* discoverSmartElements pushes, reduced to what the analyses read of it:  *)
(* its category, and whether its testId includes '-' or '_', or 'error'.   *)
(* The class body defines fourteen analyze* methods a second time at its   *)
(* end (the "placeholder methods"); of two methods of one name the later   *)
(* definition is the one an instance has.                                  *)
(***************************************************************************)
CategoriesOf(dataTestElements) ==
  { dataTestElements[i].category : i \in 1..Len(dataTestElements) }

analyzeDataTestAttributes(dataTestElements) ==
  IF Len(dataTestElements) = 0 THEN 5
  ELSE LET quantity == Min(15, FloorDiv(Len(dataTestElements), 2))
           categoryCount == Cardinality(CategoriesOf(dataTestElements))
           quality == Min(10, categoryCount * 2)
           hasConsistentNaming ==
             \A i \in 1..Len(dataTestElements) : dataTestElements[i].hasSeparator
       IN Min(30, quantity + quality + (IF hasConsistentNaming THEN 5 ELSE 0))

analyzeStateCapture(o) ==
  IF o.stateThrows THEN 10
  ELSE Min(25, (IF o.localStorage > 0 \/ o.sessionStorage > 0 THEN 10 ELSE 0)
             + (IF o.browserHistory THEN 5 ELSE 0)
             + (IF o.readyStateComplete THEN 5 ELSE 0)
             + (IF o.customState THEN 5 ELSE 0))

analyzeErrorVisibility(o) ==
  IF o.errorThrows THEN 8
  ELSE LET errorElements ==
             { i \in 1..Len(o.dataTest) :
                 o.dataTest[i].category = "feedback" \/ o.dataTest[i].hasError }
       IN Min(20, (IF errorElements # {} THEN 10 ELSE 0)
                + (IF o.visibleErrors > 0 THEN 5 ELSE 0)
                + (IF o.consoleErrors = 0 THEN 5 ELSE 0))

analyzeVisualCapabilities(o) ==
  IF o.screenshotThrows THEN 5
  ELSE Min(15, 8 + (IF o.images > 0 THEN 4 ELSE 0)
                 \* images > 0 && imagesWithAlt / images > 0.5
                 + (IF o.images > 0 /\ 2 * o.imagesWithAlt > o.images THEN 3 ELSE 0))

analyzeNetworkMonitoring(o) ==
  IF o.networkThrows THEN 3
  ELSE IF o.debugSessionId /\ o.networkRequests > 0 THEN 10 ELSE 5

\* a / b > p / q as JavaScript evaluates it: 0/0 is NaN (never greater), a/0 is Infinity
RatioAbove(a, b, p, q) ==
  IF b = 0 THEN a > 0 ELSE q * a > p * b

calculateIntelligenceBonus(insights) ==
    (IF RatioAbove(insights.testableElements, insights.totalElements, 1, 10) THEN 2 ELSE 0)
  + (IF RatioAbove(insights.observableElements, insights.totalElements, 1, 20) THEN 2 ELSE 0)
  + (IF insights.observableElements > 10 THEN 1 ELSE 0)

scoreAIObservabilityMetrics(o) ==
  << analyzeDataTestAttributes(o.dataTest), analyzeStateCapture(o),
     analyzeErrorVisibility(o), analyzeVisualCapabilities(o),
     analyzeNetworkMonitoring(o) >>

\* the observability score without the cap at 100
scoreAIObservabilityUncapped(o) ==
  IF o.throws THEN 20
  ELSE SumSeq(scoreAIObservabilityMetrics(o)) + calculateIntelligenceBonus(o)

scoreAIObservability(o) ==
  IF o.throws THEN 20
  ELSE Min(100, SumSeq(scoreAIObservabilityMetrics(o)) + calculateIntelligenceBonus(o))

analyzeInputPrecision(o) ==
  IF o.fillThrows THEN 10
  ELSE Min(30, (IF o.textInputs > 0
                THEN (IF o.valueMatches THEN 20
                      ELSE IF o.valuePartial THEN 10 ELSE 0)
                ELSE 0)
             + (IF o.requiredInputs > 0 THEN 5 ELSE 0)
             + (IF o.typedInputs > 0 THEN 5 ELSE 0))

analyzeStateControl(o) ==
  IF o.stateThrows THEN 10
  ELSE Min(25, (IF o.enabledButtons > 0 THEN 15 ELSE 0)
             + (IF o.forms > 0 THEN 5 ELSE 0)
             + (IF o.interactive > 5 THEN 5 ELSE 0))

analyzeDeterminism(o) ==
  IF o.reloadThrows THEN 8
  ELSE Min(20, (IF o.sameUrl THEN 10 ELSE 0)
             + (IF o.elementCount1 = o.elementCount2 THEN 10 ELSE 0))

\* the placeholder methods (the definitions in force)
analyzeInteractionReliability(o) == 10
analyzeAccessibilityIntegration(o) == 8

scoreAIControllabilityMetrics(o) ==
  << analyzeInputPrecision(o), analyzeStateControl(o), analyzeDeterminism(o),
     analyzeInteractionReliability(o), analyzeAccessibilityIntegration(o) >>

\* the controllability score with a flat five points on top of its metrics
scoreAIControllabilityWithBonus(o) ==
  IF o.throws THEN 25 ELSE Min(100, SumSeq(scoreAIControllabilityMetrics(o)) + 5)

scoreAIControllability(o) ==
  IF o.throws THEN 25 ELSE SumSeq(scoreAIControllabilityMetrics(o))

\* what analyzeComplexity hands on: the page's metrics, or its catch block's record
analyzeComplexity(o) ==
  IF o.complexityThrows
  THEN [totalElements |-> 100, divElements |-> 30, nestedLevels |-> 10,
        scriptTags |-> 5, styleTags |-> 3]
  ELSE [totalElements |-> o.totalElements, divElements |-> o.divElements,
        nestedLevels |-> o.nestedLevels, scriptTags |-> o.scriptTags,
        styleTags |-> o.styleTags]

analyzeDOMComplexity(metrics) ==
  LET s1 == IF metrics.totalElements > 1000 THEN 15
            ELSE IF metrics.totalElements > 500 THEN 8
            ELSE IF metrics.totalElements > 200 THEN 3 ELSE 0
      s2 == IF metrics.nestedLevels > 15 THEN 10
            ELSE IF metrics.nestedLevels > 10 THEN 5 ELSE 0
      \* divRatio > 0.4, else divRatio > 0.3
      s3 == IF RatioAbove(metrics.divElements, metrics.totalElements, 4, 10) THEN 8
            ELSE IF RatioAbove(metrics.divElements, metrics.totalElements, 3, 10) THEN 4
            ELSE 0
  IN Max(0, 40 - s1 - s2 - s3)

\* the method of lines 788-805, which the placeholder of the same name replaces
analyzeInteractionPatternSimplicityShadowed(o) ==
  IF o.patternThrows THEN 15
  ELSE Max(0, 30 - Min(10, o.complexSelectors * 2)
              + (IF o.simpleDataTest > 5 THEN 5 ELSE 0))

analyzeInteractionPatternSimplicity(o) == 20
analyzeSemanticStructure(o) == 15

analyzePredictability(metrics) ==
  Max(0, 10 - (IF metrics.scriptTags > 20 THEN 4
               ELSE IF metrics.scriptTags > 10 THEN 2 ELSE 0)
            - (IF metrics.totalElements > 1000 THEN 3 ELSE 0))

scoreAIAlgorithmicSimplicityMetrics(o) ==
  << analyzeDOMComplexity(analyzeComplexity(o)), analyzeInteractionPatternSimplicity(o),
     analyzeSemanticStructure(o), analyzePredictability(analyzeComplexity(o)) >>

scoreAIAlgorithmicSimplicity(o) ==
  IF o.throws THEN 30 ELSE SumSeq(scoreAIAlgorithmicSimplicityMetrics(o))

\* analyzeSemanticHTML, analyzeAccessibilityIntelligence, analyzeLabelingIntelligence,
\* analyzeDocumentationIntelligence, analyzeContextUnderstanding: placeholders
scoreAIExplainabilityMetrics(o) == << 25, 20, 15, 10, 8 >>

scoreAIExplainability(o) ==
  IF o.throws THEN 35 ELSE SumSeq(scoreAIExplainabilityMetrics(o))

\* analyzeComponentSeparation, analyzeModularityIntelligence,
\* analyzeIsolationIntelligence, analyzeTestableBoundaries: placeholders
scoreAIDecomposabilityMetrics(o) == << 30, 25, 15, 12 >>

scoreAIDecomposability(o) ==
  IF o.throws THEN 40 ELSE SumSeq(scoreAIDecomposabilityMetrics(o))

\* the budgets the score* methods' comments and the scorer's documentation declare
AIBudgets ==
  [ observability |-> <<30, 25, 20, 15, 10>>,
    controllability |-> <<30, 25, 20, 15, 10>>,
    algorithmicSimplicity |-> <<40, 30, 20, 10>>,
    explainability |-> <<30, 25, 20, 15, 10>>,
    decomposability |-> <<35, 30, 20, 15>> ]

(***************************************************************************)
(* QuickTestabilityScorer: no try/catch inside the score* methods.         *)
(***************************************************************************)
\* the observability metrics with one point for each data-test element
quickObservabilityMetricsPointPerElement(o) ==
  << Min(40, o.dataTestElements),
     IF o.errorElements > 0 THEN 30 ELSE 15,
     Min(30, o.imageElements * 3) >>

quickObservabilityMetrics(o) ==
  << Min(40, FloorDiv(o.dataTestElements, 2)),
     IF o.errorElements > 0 THEN 30 ELSE 15,
     Min(30, o.imageElements * 3) >>

quickControllabilityMetrics(o) ==
  << Min(50, (o.buttons + o.inputs) * 2),
     Min(30, o.forms * 15),
     Min(20, FloorDiv(o.links, 2)) >>

quickAlgorithmicSimplicityMetrics(o) ==
  << IF o.totalElements < 200 THEN 50
     ELSE IF o.totalElements < 500 THEN 35
     ELSE IF o.totalElements < 1000 THEN 20 ELSE 10,
     Min(30, o.headings * 5),
     Min(20, o.simpleButtons * 2) >>

quickExplainabilityMetrics(o) ==
  << Min(40, o.semanticElements * 5),
     Min(35, (o.labels * 5) + (o.altTexts * 3)),
     Min(25, o.ariaElements * 3) >>

quickDecomposabilityMetrics(o) ==
  << Min(50, FloorDiv(o.componentElements, 5)),
     Min(30, FloorDiv(o.containers, 3)),
     Min(20, FloorDiv(o.isolatedElements, 4)) >>

QuickBudgets ==
  [ observability |-> <<40, 30, 30>>,
    controllability |-> <<50, 30, 20>>,
    algorithmicSimplicity |-> <<50, 30, 20>>,
    explainability |-> <<40, 35, 25>>,
    decomposability |-> <<50, 30, 20>> ]

(***************************************************************************)
(* TestabilityScorer (tests/testability-principles.spec.js).  Each score*  *)
(* method fills this.metrics.<principle> and returns the sum of its        *)
(* values; a try/catch guards single metrics, never the whole method.      *)
(* The metrics are listed in the key order of this.metrics.                *)
(***************************************************************************)
scoreObservabilityMetrics(o) ==
  LET stateCapture == IF o.stateThrows THEN 5
                      ELSE IF o.localStorage > 0 \/ o.sessionStorage > 0 \/ o.cookies
                           THEN 25 ELSE 15
      networkMonitoring == IF o.networkRequests > 0 THEN 15 ELSE 5
      errorLogging == IF o.errorElements > 0 THEN 20 ELSE 10
      visualCapture == IF o.screenshotThrows THEN 0 ELSE 15
      dataTestAttributes == Min(25, FloorDiv(o.dataTestElements, 3))
  IN << stateCapture, networkMonitoring, errorLogging, visualCapture, dataTestAttributes >>

scoreControllabilityMetrics(o) ==
  LET inputPrecision == IF o.fillThrows THEN 5
                        ELSE IF o.valueMatches THEN 30 ELSE 15
      stateControl == IF o.stateThrows THEN 5
                      ELSE IF o.isEnabled THEN 25 ELSE 15
      determinism == IF o.reloadThrows THEN 10
                     ELSE IF o.sameUrl THEN 25 ELSE 15
      interactionReliability == Min(20, FloorDiv(o.interactiveElements, 2))
  IN << inputPrecision, stateControl, determinism, interactionReliability >>

scoreAlgorithmicSimplicityMetrics(o) ==
  LET inputOutputClarity == IF o.gotoThrows THEN 10
                            ELSE IF o.forms > 0 THEN 40 ELSE 20
      basicOperationSteps == 3
      operationComplexity == Max(10, 30 - (basicOperationSteps - 3) * 5)
      behaviorPredictability == IF o.loginKnown
                                THEN (IF o.loginSuccess THEN 30 ELSE 15)
                                ELSE 20
  IN << inputOutputClarity, operationComplexity, behaviorPredictability >>

scoreAlgorithmicTransparencyMetrics(o) ==
  LET behaviorVisibility == Min(40, o.visibleFeedback * 10)
      processUnderstanding == Min(35, o.processIndicators * 15 + 20)
      blackBoxReduction == IF o.hasNetworkRequests
                           THEN Min(25, o.apiCalls * 8 + 5) ELSE 15
  IN << behaviorVisibility, processUnderstanding, blackBoxReduction >>

scoreAlgorithmicStabilityMetrics(o) ==
  LET changeResilience == IF o.reloadThrows THEN 10
                          ELSE IF o.urlOnSite THEN 40 ELSE 25
      testMaintainability == Min(35, FloorDiv(o.dataTestAttrs, 2))
      behaviorConsistency == IF o.crossBrowserTesting THEN 25 ELSE 15
  IN << changeResilience, testMaintainability, behaviorConsistency >>

scoreExplainabilityMetrics(o) ==
  LET codeClarity == Min(40, o.semanticElements * 5)
      documentationQuality == Min(35, o.labels * 5 + o.altTexts * 3 + o.titles * 2)
      semanticStructure == Min(25, (o.ariaLabels + o.roles) * 5 + 10)
  IN << codeClarity, documentationQuality, semanticStructure >>

scoreUnbugginessMetrics(o) ==
  LET errorRate == Max(0, 40 - (o.errorCount * 10))
      errorHandling == Min(35, o.errorHandlers * 15 + 20)
      robustness == IF o.fillThrows THEN 10 ELSE 25
  IN << errorRate, errorHandling, robustness >>

scoreSmallnessMetrics(o) ==
  LET componentSize == IF o.totalElements < 100 THEN 40
                       ELSE IF o.totalElements < 200 THEN 30
                       ELSE IF o.totalElements < 500 THEN 20 ELSE 10
      testScope == IF o.formElements < 10 THEN 35
                   ELSE IF o.formElements < 20 THEN 25 ELSE 15
      outputManageability == IF o.hasNetworkRequests
                             THEN (IF o.networkRequests < 10 THEN 25
                                   ELSE IF o.networkRequests < 25 THEN 20
                                   ELSE IF o.networkRequests < 50 THEN 15 ELSE 10)
                             ELSE 15
  IN << componentSize, testScope, outputManageability >>

scoreDecomposabilityMetrics(o) ==
  LET componentSeparation == Min(40, FloorDiv(o.componentMarkers, 2))
      isolatedTesting == Min(35, FloorDiv(o.testableComponents, 5))
      modularScore == (o.forms * 5) + Min(15, FloorDiv(o.sections, 3))
      modularDesign == Min(25, modularScore)
  IN << componentSeparation, isolatedTesting, modularDesign >>

scoreSimilarityMetrics(o) ==
  LET standardPatterns == Min(40, o.standardElements * 8)
      \* the page-side score, or 25 when page.evaluate rejects
      techScore == IF o.evaluateThrows THEN 25
                   ELSE (IF o.jquery THEN 10 ELSE 0) + (IF o.react THEN 10 ELSE 0)
                      + (IF o.bootstrap THEN 10 ELSE 0) + (IF o.cssLink THEN 15 ELSE 0)
      familiarTechnology == Min(35, techScore)
      conventionalDesign == Min(25, o.conventionalElements * 5 + 10)
  IN << standardPatterns, familiarTechnology, conventionalDesign >>

ClassicBudgets ==
  [ observability |-> <<25, 15, 20, 15, 25>>,
    controllability |-> <<30, 25, 25, 20>>,
    algorithmicSimplicity |-> <<40, 30, 30>>,
    algorithmicTransparency |-> <<40, 35, 25>>,
    algorithmicStability |-> <<40, 35, 25>>,
    explainability |-> <<40, 35, 25>>,
    unbugginess |-> <<40, 35, 25>>,
    smallness |-> <<40, 35, 25>>,
    decomposability |-> <<40, 35, 25>>,
    similarity |-> <<40, 35, 25>> ]

(***************************************************************************)
(* Overall score, grades and recommendations.                              *)
(***************************************************************************)
\* a ladder whose boundaries belong to the lower grade
getGradeExclusive(score) ==
  IF score > 90 THEN "A (Excellent)"
  ELSE IF score > 80 THEN "B (Good)"
  ELSE IF score > 70 THEN "C (Average)"
  ELSE IF score > 60 THEN "D (Below Average)"
  ELSE "F (Poor)"

getGrade(score) ==
  IF score >= 90 THEN "A (Excellent)"
  ELSE IF score >= 80 THEN "B (Good)"
  ELSE IF score >= 70 THEN "C (Average)"
  ELSE IF score >= 60 THEN "D (Below Average)"
  ELSE "F (Poor)"

getAIGrade(score) ==
  IF score >= 95 THEN "A+ (AI-Optimized)"
  ELSE IF score >= 90 THEN "A (Excellent for AI)"
  ELSE IF score >= 80 THEN "B (Good for AI)"
  ELSE IF score >= 70 THEN "C (Average for AI)"
  ELSE IF score >= 60 THEN "D (Below AI Standards)"
  ELSE "F (Not AI-Ready)"

(***************************************************************************)
(* State.                                                                  *)
(*   phase, out      one call of one scoring method and what it returned   *)
(*   aiScorer        the fields of an AITestabilityScorer instance         *)
(*   analyzer        the fields of a ComprehensiveTestabilityAnalyzer      *)
(*   scorer          the fields of a TestabilityScorer                     *)
(*   heap            the arrays the instances and the results refer to     *)
(*   returned        the result objects handed back to the caller so far   *)
(*   calls           the runCompleteAnalysis calls in flight               *)
(*   aiDebugger      the AIDebugger singleton: the ids in its debugSessions *)
(***************************************************************************)
VARIABLES phase, out, heap, aiScorer, analyzer, scorer, returned, calls, aiDebugger

vars == << phase, out, heap, aiScorer, analyzer, scorer, returned, calls, aiDebugger >>
runVars == << heap, aiScorer, analyzer, scorer, returned, calls, aiDebugger >>

Rs(s) == [ i \in 1..Len(s) |-> R(s[i]) ]
Rs2(f) == [ x \in DOMAIN f |-> R(f[x]) ]

\* what one call of a scoring method produced: the metrics it added up (none
\* on its catch path), their declared budgets, and the score it returned
Outcome(cls, principle, metrics, budgets, score, failed) ==
  [ scorer |-> cls, principle |-> principle,
    metrics |-> IF failed THEN << >> ELSE metrics,
    budgets |-> budgets, score |-> score, failed |-> failed,
    bonus |-> 0, grade |-> "" ]

NoOutcome == Outcome("", "", << >>, << >>, R(0), FALSE)

\* no call has been made yet
Idle == phase = "idle"

Returns(o) == /\ phase' = "returned"
              /\ out' = o
              /\ UNCHANGED runVars

(***************************************************************************)
(* One call of each analyze* method of ComprehensiveTestabilityAnalyzer.   *)
(***************************************************************************)
AnalyzeObservabilityInputs ==
  [ localStorage : ZeroOne, sessionStorage : ZeroOne, cookies : BOOLEAN,
    readyStateComplete : BOOLEAN, dataTestElements : Counts,
    errorElements : ZeroOne, visualElements : Counts,
    debugSessionId : BOOLEAN, networkRequests : ZeroOne, throws : BOOLEAN ]

AnalyzeObservability ==
  /\ Idle
  /\ \E o \in AnalyzeObservabilityInputs :
    Returns(Outcome("complete", "observability", analyzeObservabilityMetrics(o),
                    CompleteBudgets.observability, analyzeObservability(o), o.throws))

AnalyzeControllabilityInputs ==
  [ inputFields : ZeroOne, fillThrows : BOOLEAN, valueMatches : BOOLEAN,
    interactiveElements : Counts, sameUrl : BOOLEAN,
    buttons : Counts, links : Counts, throws : BOOLEAN ]

AnalyzeControllability ==
  /\ Idle
  /\ \E o \in AnalyzeControllabilityInputs :
    Returns(Outcome("complete", "controllability", analyzeControllabilityMetrics(o),
                    CompleteBudgets.controllability, analyzeControllability(o), o.throws))

AnalyzeAlgorithmicSimplicityInputs ==
  [ totalElements : Totals, forms : Counts, buttons : Counts \cup {9, 10, 19, 20},
    headings : Counts, navigation : Counts, throws : BOOLEAN ]

AnalyzeAlgorithmicSimplicity ==
  /\ Idle
  /\ \E o \in AnalyzeAlgorithmicSimplicityInputs :
    Returns(Outcome("complete", "algorithmicSimplicity",
                    analyzeAlgorithmicSimplicityMetrics(o),
                    CompleteBudgets.algorithmicSimplicity,
                    analyzeAlgorithmicSimplicity(o), o.throws))

AnalyzeAlgorithmicTransparencyInputs ==
  [ visibleFeedback : Counts, labels : Counts, tooltips : Counts,
    consoleErrors : Counts, throws : BOOLEAN ]

AnalyzeAlgorithmicTransparency ==
  /\ Idle
  /\ \E o \in AnalyzeAlgorithmicTransparencyInputs :
    Returns(Outcome("complete", "algorithmicTransparency",
                    analyzeAlgorithmicTransparencyMetrics(o),
                    CompleteBudgets.algorithmicTransparency,
                    analyzeAlgorithmicTransparency(o), o.throws))

AnalyzeAlgorithmicStabilityInputs ==
  [ initialElementCount : ZeroOne, reloadElementCount : ZeroOne,
    separatorIds : Counts, longIds : Counts, consistentElements : Counts,
    throws : BOOLEAN ]

AnalyzeAlgorithmicStability ==
  /\ Idle
  /\ \E o \in AnalyzeAlgorithmicStabilityInputs :
    Returns(Outcome("complete", "algorithmicStability",
                    analyzeAlgorithmicStabilityMetrics(o),
                    CompleteBudgets.algorithmicStability,
                    analyzeAlgorithmicStability(o), o.throws))

AnalyzeExplainabilityInputs ==
  [ semanticElements : Counts, actualLabels : Counts, totalImages : Counts,
    altTexts : Counts, ariaElements : Counts, throws : BOOLEAN ]

AnalyzeExplainability ==
  /\ Idle
  /\ \E o \in AnalyzeExplainabilityInputs :
    \* img[alt] elements are img elements
    /\ o.altTexts <= o.totalImages
    /\ Returns(Outcome("complete", "explainability", analyzeExplainabilityMetrics(o),
                       CompleteBudgets.explainability, analyzeExplainability(o), o.throws))

AnalyzeUnbugginessInputs ==
  [ jsErrors : Counts, consoleErrors : Counts, errorElements : ZeroOne,
    brokenImages : Counts, throws : BOOLEAN ]

AnalyzeUnbugginess ==
  /\ Idle
  /\ \E o \in AnalyzeUnbugginessInputs :
    Returns(Outcome("complete", "unbugginess", analyzeUnbugginessMetrics(o),
                    CompleteBudgets.unbugginess, analyzeUnbugginess(o), o.throws))

AnalyzeSmallnessInputs ==
  [ totalElements : Totals, testableElements : Counts,
    contentSize : ContentSizes, throws : BOOLEAN ]

AnalyzeSmallness ==
  /\ Idle
  /\ \E o \in AnalyzeSmallnessInputs :
    Returns(Outcome("complete", "smallness", analyzeSmallnessMetrics(o),
                    CompleteBudgets.smallness, analyzeSmallness(o), o.throws))

AnalyzeDecomposabilityInputs ==
  [ containers : Counts, isolatedElements : Counts, forms : Counts,
    modules : Counts, throws : BOOLEAN ]

AnalyzeDecomposability ==
  /\ Idle
  /\ \E o \in AnalyzeDecomposabilityInputs :
    Returns(Outcome("complete", "decomposability", analyzeDecomposabilityMetrics(o),
                    CompleteBudgets.decomposability, analyzeDecomposability(o), o.throws))

AnalyzeSimilarityInputs ==
  [ buttons : Counts, forms : Counts, navigation : Counts, headings : Counts,
    html5 : BOOLEAN, css : BOOLEAN, javascript : BOOLEAN,
    formControls : BOOLEAN, header : BOOLEAN, footer : BOOLEAN,
    main : BOOLEAN, breadcrumbs : BOOLEAN, throws : BOOLEAN ]

AnalyzeSimilarity ==
  /\ Idle
  /\ \E o \in AnalyzeSimilarityInputs :
    Returns(Outcome("complete", "similarity", analyzeSimilarityMetrics(o),
                    CompleteBudgets.similarity, analyzeSimilarity(o), o.throws))

(***************************************************************************)
(* One call of each scoreAI* method of AITestabilityScorer.  The page is   *)
(* put together from what each sub-analysis reads of it; a sub-analysis    *)
(* that throws reads nothing more.                                         *)
(***************************************************************************)
CategoryOrder == << "form", "action", "navigation", "display", "control", "feedback", "unknown" >>

\* len data-test elements of nCats categories; the first one may name an error
MakeDataTest(len, nCats, sep, err) ==
  [ i \in 1..len |-> [ category |-> CategoryOrder[((i - 1) % nCats) + 1],
                       hasSeparator |-> sep,
                       hasError |-> err /\ i = 1 ] ]

DataTestLists ==
  { MakeDataTest(len, nCats, sep, err) :
      len \in {0, 2, ManyDataTest}, nCats \in {1, 6}, sep \in BOOLEAN, err \in BOOLEAN }

StateCaptureObs ==
  [ stateThrows : {FALSE}, localStorage : ZeroOne, sessionStorage : ZeroOne,
    browserHistory : BOOLEAN, readyStateComplete : BOOLEAN, customState : BOOLEAN ]
  \cup [ stateThrows : {TRUE}, localStorage : {0}, sessionStorage : {0},
         browserHistory : {FALSE}, readyStateComplete : {FALSE}, customState : {FALSE} ]

ErrorVisibilityObs ==
  [ errorThrows : {FALSE}, visibleErrors : ZeroOne, consoleErrors : ZeroOne ]
  \cup [ errorThrows : {TRUE}, visibleErrors : {0}, consoleErrors : {0} ]

VisualObs ==
  { [ screenshotThrows |-> TRUE, images |-> 0, imagesWithAlt |-> 0 ],
    [ screenshotThrows |-> FALSE, images |-> 0, imagesWithAlt |-> 0 ],
    [ screenshotThrows |-> FALSE, images |-> 2, imagesWithAlt |-> 1 ],
    [ screenshotThrows |-> FALSE, images |-> 2, imagesWithAlt |-> 2 ] }

NetworkObs ==
  [ networkThrows : {FALSE}, debugSessionId : BOOLEAN, networkRequests : ZeroOne ]
  \cup [ networkThrows : {TRUE}, debugSessionId : {FALSE}, networkRequests : {0} ]

ElementCountObs ==
  [ totalElements : {0, 100}, testableElements : {0, 11},
    observableElements : {0, 6, 11} ]

\* a call whose try block throws reads no more of the page than one observation
Read(throws, S) == IF throws THEN { CHOOSE x \in S : TRUE } ELSE S

ScoreAIObservability ==
  /\ Idle
  /\ \E throws \in BOOLEAN :
       \E dt \in Read(throws, DataTestLists), st \in Read(throws, StateCaptureObs),
          ev \in Read(throws, ErrorVisibilityObs), vo \in Read(throws, VisualObs),
          no \in Read(throws, NetworkObs), ec \in Read(throws, ElementCountObs) :
         LET o == [ dataTest |-> dt, throws |-> throws ] @@ st @@ ev @@ vo @@ no @@ ec
         IN Returns([ Outcome("ai", "observability", Rs(scoreAIObservabilityMetrics(o)),
                              AIBudgets.observability,
                              R(scoreAIObservability(o)), o.throws)
                      EXCEPT !.bonus = IF o.throws THEN 0
                                       ELSE calculateIntelligenceBonus(o) ])

ScoreAIControllabilityInputs ==
  [ fillThrows : BOOLEAN, textInputs : ZeroOne, valueMatches : BOOLEAN,
    valuePartial : BOOLEAN, requiredInputs : ZeroOne, typedInputs : ZeroOne,
    stateThrows : BOOLEAN, enabledButtons : ZeroOne, forms : ZeroOne,
    interactive : {0, 5, 6}, reloadThrows : BOOLEAN, sameUrl : BOOLEAN,
    elementCount1 : ZeroOne, elementCount2 : ZeroOne, throws : BOOLEAN ]

ScoreAIControllability ==
  /\ Idle
  /\ \E o \in ScoreAIControllabilityInputs :
    Returns(Outcome("ai", "controllability", Rs(scoreAIControllabilityMetrics(o)),
                    AIBudgets.controllability, R(scoreAIControllability(o)), o.throws))

ScoreAIAlgorithmicSimplicityInputs ==
  [ complexityThrows : BOOLEAN, totalElements : Totals,
    divElements : {0, 60, 61, 80, 81, 400}, nestedLevels : {0, 10, 11, 15, 16},
    scriptTags : {0, 10, 11, 20, 21}, styleTags : ZeroOne,
    patternThrows : BOOLEAN, complexSelectors : {0, 1, 5}, simpleDataTest : {0, 5, 6},
    throws : BOOLEAN ]

ScoreAIAlgorithmicSimplicity ==
  /\ Idle
  /\ \E o \in ScoreAIAlgorithmicSimplicityInputs :
    Returns(Outcome("ai", "algorithmicSimplicity",
                    Rs(scoreAIAlgorithmicSimplicityMetrics(o)),
                    AIBudgets.algorithmicSimplicity,
                    R(scoreAIAlgorithmicSimplicity(o)), o.throws))

ScoreAIExplainabilityInputs ==
  [ throws : BOOLEAN ]

ScoreAIExplainability ==
  /\ Idle
  /\ \E o \in ScoreAIExplainabilityInputs :
    Returns(Outcome("ai", "explainability", Rs(scoreAIExplainabilityMetrics(o)),
                    AIBudgets.explainability, R(scoreAIExplainability(o)), o.throws))

ScoreAIDecomposabilityInputs ==
  [ throws : BOOLEAN ]

ScoreAIDecomposability ==
  /\ Idle
  /\ \E o \in ScoreAIDecomposabilityInputs :
    Returns(Outcome("ai", "decomposability", Rs(scoreAIDecomposabilityMetrics(o)),
                    AIBudgets.decomposability, R(scoreAIDecomposability(o)), o.throws))

(***************************************************************************)
(* One call of each score* method of QuickTestabilityScorer.               *)
(***************************************************************************)
quickScoreObservability(o) == SumSeq(quickObservabilityMetrics(o))
quickScoreControllability(o) == SumSeq(quickControllabilityMetrics(o))
quickScoreAlgorithmicSimplicity(o) == SumSeq(quickAlgorithmicSimplicityMetrics(o))
quickScoreExplainability(o) == SumSeq(quickExplainabilityMetrics(o))
quickScoreDecomposability(o) == SumSeq(quickDecomposabilityMetrics(o))

QuickScoreObservabilityInputs ==
  [ dataTestElements : Counts, errorElements : ZeroOne, imageElements : Counts ]

QuickScoreObservability ==
  /\ Idle
  /\ \E o \in QuickScoreObservabilityInputs :
    Returns(Outcome("quick", "observability", Rs(quickObservabilityMetrics(o)),
                    QuickBudgets.observability, R(quickScoreObservability(o)), FALSE))

QuickScoreControllabilityInputs ==
  [ buttons : Counts, inputs : Counts, forms : Counts, links : Counts ]

QuickScoreControllability ==
  /\ Idle
  /\ \E o \in QuickScoreControllabilityInputs :
    Returns(Outcome("quick", "controllability", Rs(quickControllabilityMetrics(o)),
                    QuickBudgets.controllability, R(quickScoreControllability(o)), FALSE))

QuickScoreAlgorithmicSimplicityInputs ==
  [ totalElements : Totals, headings : Counts, simpleButtons : Counts ]

QuickScoreAlgorithmicSimplicity ==
  /\ Idle
  /\ \E o \in QuickScoreAlgorithmicSimplicityInputs :
    Returns(Outcome("quick", "algorithmicSimplicity",
                    Rs(quickAlgorithmicSimplicityMetrics(o)),
                    QuickBudgets.algorithmicSimplicity,
                    R(quickScoreAlgorithmicSimplicity(o)), FALSE))

QuickScoreExplainabilityInputs ==
  [ semanticElements : Counts, labels : Counts, altTexts : Counts,
    ariaElements : Counts ]

QuickScoreExplainability ==
  /\ Idle
  /\ \E o \in QuickScoreExplainabilityInputs :
    Returns(Outcome("quick", "explainability", Rs(quickExplainabilityMetrics(o)),
                    QuickBudgets.explainability, R(quickScoreExplainability(o)), FALSE))

QuickScoreDecomposabilityInputs ==
  [ componentElements : Counts, containers : Counts, isolatedElements : Counts ]

QuickScoreDecomposability ==
  /\ Idle
  /\ \E o \in QuickScoreDecomposabilityInputs :
    Returns(Outcome("quick", "decomposability", Rs(quickDecomposabilityMetrics(o)),
                    QuickBudgets.decomposability, R(quickScoreDecomposability(o)), FALSE))

(***************************************************************************)
(* One call of each score* method of TestabilityScorer.                    *)
(***************************************************************************)
scoreObservability(o) == SumSeq(scoreObservabilityMetrics(o))
scoreControllability(o) == SumSeq(scoreControllabilityMetrics(o))
scoreAlgorithmicSimplicity(o) == SumSeq(scoreAlgorithmicSimplicityMetrics(o))
scoreAlgorithmicTransparency(o) == SumSeq(scoreAlgorithmicTransparencyMetrics(o))
scoreAlgorithmicStability(o) == SumSeq(scoreAlgorithmicStabilityMetrics(o))
scoreExplainability(o) == SumSeq(scoreExplainabilityMetrics(o))
scoreUnbugginess(o) == SumSeq(scoreUnbugginessMetrics(o))
scoreSmallness(o) == SumSeq(scoreSmallnessMetrics(o))
scoreDecomposability(o) == SumSeq(scoreDecomposabilityMetrics(o))
scoreSimilarity(o) == SumSeq(scoreSimilarityMetrics(o))

ScoreObservabilityInputs ==
  [ stateThrows : BOOLEAN, localStorage : ZeroOne, sessionStorage : ZeroOne,
    cookies : BOOLEAN, networkRequests : ZeroOne, errorElements : ZeroOne,
    screenshotThrows : BOOLEAN, dataTestElements : Counts ]

ScoreObservability ==
  /\ Idle
  /\ \E o \in ScoreObservabilityInputs :
    Returns(Outcome("scorer", "observability", Rs(scoreObservabilityMetrics(o)),
                    ClassicBudgets.observability, R(scoreObservability(o)), FALSE))

ScoreControllabilityInputs ==
  [ fillThrows : BOOLEAN, valueMatches : BOOLEAN, stateThrows : BOOLEAN,
    isEnabled : BOOLEAN, reloadThrows : BOOLEAN, sameUrl : BOOLEAN,
    interactiveElements : Counts ]

ScoreControllability ==
  /\ Idle
  /\ \E o \in ScoreControllabilityInputs :
    Returns(Outcome("scorer", "controllability", Rs(scoreControllabilityMetrics(o)),
                    ClassicBudgets.controllability, R(scoreControllability(o)), FALSE))

ScoreAlgorithmicSimplicityInputs ==
  [ gotoThrows : BOOLEAN, forms : ZeroOne, loginKnown : BOOLEAN,
    loginSuccess : BOOLEAN ]

ScoreAlgorithmicSimplicity ==
  /\ Idle
  /\ \E o \in ScoreAlgorithmicSimplicityInputs :
    Returns(Outcome("scorer", "algorithmicSimplicity",
                    Rs(scoreAlgorithmicSimplicityMetrics(o)),
                    ClassicBudgets.algorithmicSimplicity,
                    R(scoreAlgorithmicSimplicity(o)), FALSE))

ScoreAlgorithmicTransparencyInputs ==
  [ visibleFeedback : Counts, processIndicators : Counts,
    hasNetworkRequests : BOOLEAN, apiCalls : Counts ]

ScoreAlgorithmicTransparency ==
  /\ Idle
  /\ \E o \in ScoreAlgorithmicTransparencyInputs :
    Returns(Outcome("scorer", "algorithmicTransparency",
                    Rs(scoreAlgorithmicTransparencyMetrics(o)),
                    ClassicBudgets.algorithmicTransparency,
                    R(scoreAlgorithmicTransparency(o)), FALSE))

ScoreAlgorithmicStabilityInputs ==
  [ reloadThrows : BOOLEAN, urlOnSite : BOOLEAN, dataTestAttrs : Counts,
    crossBrowserTesting : BOOLEAN ]

ScoreAlgorithmicStability ==
  /\ Idle
  /\ \E o \in ScoreAlgorithmicStabilityInputs :
    Returns(Outcome("scorer", "algorithmicStability",
                    Rs(scoreAlgorithmicStabilityMetrics(o)),
                    ClassicBudgets.algorithmicStability,
                    R(scoreAlgorithmicStability(o)), FALSE))

ScoreExplainabilityInputs ==
  [ semanticElements : Counts, labels : Counts, altTexts : Counts,
    titles : Counts, ariaLabels : Counts, roles : Counts ]

ScoreExplainability ==
  /\ Idle
  /\ \E o \in ScoreExplainabilityInputs :
    Returns(Outcome("scorer", "explainability", Rs(scoreExplainabilityMetrics(o)),
                    ClassicBudgets.explainability, R(scoreExplainability(o)), FALSE))

ScoreUnbugginessInputs ==
  [ errorCount : Counts, errorHandlers : Counts, fillThrows : BOOLEAN ]

ScoreUnbugginess ==
  /\ Idle
  /\ \E o \in ScoreUnbugginessInputs :
    Returns(Outcome("scorer", "unbugginess", Rs(scoreUnbugginessMetrics(o)),
                    ClassicBudgets.unbugginess, R(scoreUnbugginess(o)), FALSE))

ScoreSmallnessInputs ==
  [ totalElements : Totals, formElements : Counts \cup {9, 10, 19, 20},
    hasNetworkRequests : BOOLEAN,
    networkRequests : Counts \cup {9, 10, 24, 25, 49, 50} ]

ScoreSmallness ==
  /\ Idle
  /\ \E o \in ScoreSmallnessInputs :
    Returns(Outcome("scorer", "smallness", Rs(scoreSmallnessMetrics(o)),
                    ClassicBudgets.smallness, R(scoreSmallness(o)), FALSE))

ScoreDecomposabilityInputs ==
  [ componentMarkers : Counts, testableComponents : Counts, forms : Counts,
    sections : Counts ]

ScoreDecomposability ==
  /\ Idle
  /\ \E o \in ScoreDecomposabilityInputs :
    Returns(Outcome("scorer", "decomposability", Rs(scoreDecomposabilityMetrics(o)),
                    ClassicBudgets.decomposability, R(scoreDecomposability(o)), FALSE))

ScoreSimilarityInputs ==
  [ standardElements : Counts, evaluateThrows : BOOLEAN, jquery : BOOLEAN,
    react : BOOLEAN, bootstrap : BOOLEAN, cssLink : BOOLEAN,
    conventionalElements : Counts ]

ScoreSimilarity ==
  /\ Idle
  /\ \E o \in ScoreSimilarityInputs :
    Returns(Outcome("scorer", "similarity", Rs(scoreSimilarityMetrics(o)),
                    ClassicBudgets.similarity, R(scoreSimilarity(o)), FALSE))

(***************************************************************************)
(* One call of each grade method on an overall score.                      *)
(***************************************************************************)
\* QuickTestabilityScorer.getGrade with the boundary scores graded one lower
quickGetGradeExclusive(score) ==
  IF score > 90 THEN "A (Excellent)"
  ELSE IF score > 80 THEN "B (Good)"
  ELSE IF score > 70 THEN "C (Average)"
  ELSE IF score > 60 THEN "D (Below Average)"
  ELSE "F (Poor)"

\* QuickTestabilityScorer.getGrade
quickGetGrade(score) ==
  IF score >= 90 THEN "A (Excellent)"
  ELSE IF score >= 80 THEN "B (Good)"
  ELSE IF score >= 70 THEN "C (Average)"
  ELSE IF score >= 60 THEN "D (Below Average)"
  ELSE "F (Poor)"

\* TestabilityScorer.getGrade
scorerGetGrade(score) ==
  IF score >= 90 THEN "(A)"
  ELSE IF score >= 80 THEN "(B)"
  ELSE IF score >= 70 THEN "(C)"
  ELSE IF score >= 60 THEN "(D)"
  ELSE "(F)"

Graded(cls, score, grade) ==
  [ Outcome(cls, "overall", << >>, << >>, R(score), FALSE) EXCEPT !.grade = grade ]

GetGrade == Idle /\ \E score \in 0..100 : Returns(Graded("complete", score, getGrade(score)))
GetAIGrade == Idle /\ \E score \in 0..100 : Returns(Graded("ai", score, getAIGrade(score)))
QuickGetGrade == Idle /\ \E score \in 0..100 : Returns(Graded("quick", score, quickGetGrade(score)))
ScorerGetGrade == Idle /\ \E score \in 0..100 : Returns(Graded("scorer", score, scorerGetGrade(score)))

(***************************************************************************)
(* The instances after construction.  heap[1] is the improvementSuggestions*)
(* array of the AITestabilityScorer, heap[2] the aiRecommendations array   *)
(* of the analyzer, heap[3] the results.recommendations array of the       *)
(* TestabilityScorer.                                                      *)
(***************************************************************************)
InitInstances ==
  /\ heap = << << >>, << >>, << >> >>
  /\ aiScorer = [ principleScores |-> [ p \in Principles |-> 0 ],
                  improvementSuggestions |-> 1 ]
  /\ analyzer = [ principles |-> [ p \in Principles |-> R(0) ],
                  aiRecommendations |-> 2 ]
  /\ scorer = [ scores |-> [ p \in Principles |-> 0 ],
                recommendations |-> 3 ]
  /\ returned = << >>
  /\ calls = << >>
  /\ aiDebugger = [ debugSessions |-> {} ]

InitScore == /\ phase = "idle"
             /\ out = NoOutcome
             /\ InitInstances

NextScore ==
  \/ GetGrade \/ GetAIGrade \/ QuickGetGrade \/ ScorerGetGrade
  \/ ScoreAIControllability \/ ScoreAIAlgorithmicSimplicity
  \/ ScoreAIExplainability \/ ScoreAIDecomposability
  \/ QuickScoreObservability \/ QuickScoreControllability
  \/ QuickScoreAlgorithmicSimplicity \/ QuickScoreExplainability
  \/ QuickScoreDecomposability
  \/ ScoreObservability \/ ScoreControllability \/ ScoreAlgorithmicSimplicity
  \/ ScoreAlgorithmicTransparency \/ ScoreAlgorithmicStability \/ ScoreExplainability
  \/ ScoreUnbugginess \/ ScoreSmallness \/ ScoreDecomposability \/ ScoreSimilarity
  \/ AnalyzeObservability \/ AnalyzeControllability \/ AnalyzeAlgorithmicSimplicity
  \/ AnalyzeAlgorithmicTransparency \/ AnalyzeAlgorithmicStability
  \/ AnalyzeExplainability \/ AnalyzeUnbugginess \/ AnalyzeSmallness
  \/ AnalyzeDecomposability \/ AnalyzeSimilarity
  \/ ScoreAIObservability

SpecScore == InitScore /\ [][NextScore]_vars

(***************************************************************************)
(* Whole assessment runs.  A page under assessment is described by the     *)
(* count every locator finds on it, the value of every yes/no probe, and   *)
(* the principle (if any) whose analysis throws inside its try block; it   *)
(* shows no console error, script error or broken image.                   *)
(***************************************************************************)
FailingSteps == {"none", "observability", "explainability", "unbugginess"}
Pages == [ count : {0, SmallMax, BigCount}, flag : BOOLEAN, failing : FailingSteps ]

\* what the analysis of one principle observes on page pg
Observe(pg, principle) ==
  LET n == pg.count
      b == pg.flag
  IN [ throws |-> (pg.failing = principle),
       fillThrows |-> FALSE, stateThrows |-> FALSE, errorThrows |-> FALSE,
       screenshotThrows |-> FALSE, networkThrows |-> FALSE, reloadThrows |-> FALSE,
       complexityThrows |-> FALSE, patternThrows |-> FALSE, gotoThrows |-> FALSE,
       evaluateThrows |-> FALSE,
       dataTest |-> MakeDataTest(Min(n, ManyDataTest), 6, b, FALSE),
       localStorage |-> n, sessionStorage |-> n, dataTestElements |-> n,
       errorElements |-> n, visualElements |-> n, networkRequests |-> n,
       inputFields |-> n, interactiveElements |-> n, buttons |-> n, links |-> n,
       totalElements |-> n, forms |-> n, headings |-> n, navigation |-> n,
       visibleFeedback |-> n, labels |-> n, tooltips |-> n,
       consoleErrors |-> 0, jsErrors |-> 0, brokenImages |-> 0, errorCount |-> 0,
       initialElementCount |-> n, reloadElementCount |-> n, separatorIds |-> n,
       longIds |-> n, consistentElements |-> n, semanticElements |-> n,
       actualLabels |-> n, totalImages |-> n, altTexts |-> n, ariaElements |-> n,
       testableElements |-> n, contentSize |-> n, containers |-> n,
       isolatedElements |-> n, modules |-> n, visibleErrors |-> n, images |-> n,
       imagesWithAlt |-> n, observableElements |-> n, textInputs |-> n,
       requiredInputs |-> n, typedInputs |-> n, enabledButtons |-> n,
       interactive |-> n, elementCount1 |-> n, elementCount2 |-> n,
       divElements |-> 0, nestedLevels |-> n, scriptTags |-> n, styleTags |-> n,
       complexSelectors |-> n, simpleDataTest |-> n, imageElements |-> n,
       inputs |-> n, simpleButtons |-> n, componentElements |-> n,
       processIndicators |-> n, apiCalls |-> n, dataTestAttrs |-> n, titles |-> n,
       ariaLabels |-> n, roles |-> n, errorHandlers |-> n, formElements |-> n,
       componentMarkers |-> n, testableComponents |-> n, sections |-> n,
       standardElements |-> n, conventionalElements |-> n,
       cookies |-> b, readyStateComplete |-> b, debugSessionId |-> b,
       valueMatches |-> b, sameUrl |-> b, html5 |-> b, css |-> b, javascript |-> b,
       formControls |-> b, header |-> b, footer |-> b, main |-> b, breadcrumbs |-> b,
       browserHistory |-> b, customState |-> b, valuePartial |-> b, isEnabled |-> b,
       loginKnown |-> b, loginSuccess |-> b, hasNetworkRequests |-> b,
       urlOnSite |-> b, crossBrowserTesting |-> b, jquery |-> b, react |-> b,
       bootstrap |-> b, cssLink |-> b ]

\* the method runCompleteAnalysis awaits for each principle
analyzePrinciple(principle, o) ==
  CASE principle = "observability" -> analyzeObservability(o)
    [] principle = "controllability" -> analyzeControllability(o)
    [] principle = "algorithmicSimplicity" -> analyzeAlgorithmicSimplicity(o)
    [] principle = "algorithmicTransparency" -> analyzeAlgorithmicTransparency(o)
    [] principle = "algorithmicStability" -> analyzeAlgorithmicStability(o)
    [] principle = "explainability" -> analyzeExplainability(o)
    [] principle = "unbugginess" -> analyzeUnbugginess(o)
    [] principle = "smallness" -> analyzeSmallness(o)
    [] principle = "decomposability" -> analyzeDecomposability(o)
    [] principle = "similarity" -> analyzeSimilarity(o)

\* the method runAIAssessment awaits for each of its five principles
scoreAIPrinciple(principle, o) ==
  CASE principle = "observability" -> scoreAIObservability(o)
    [] principle = "controllability" -> scoreAIControllability(o)
    [] principle = "algorithmicSimplicity" -> scoreAIAlgorithmicSimplicity(o)
    [] principle = "explainability" -> scoreAIExplainability(o)
    [] principle = "decomposability" -> scoreAIDecomposability(o)

\* the method runQuickAssessment awaits for each of its five principles
quickScorePrinciple(principle, o) ==
  CASE principle = "observability" -> quickScoreObservability(o)
    [] principle = "controllability" -> quickScoreControllability(o)
    [] principle = "algorithmicSimplicity" -> quickScoreAlgorithmicSimplicity(o)
    [] principle = "explainability" -> quickScoreExplainability(o)
    [] principle = "decomposability" -> quickScoreDecomposability(o)

\* the score* method of TestabilityScorer for each principle
scorePrinciple(principle, o) ==
  CASE principle = "observability" -> scoreObservability(o)
    [] principle = "controllability" -> scoreControllability(o)
    [] principle = "algorithmicSimplicity" -> scoreAlgorithmicSimplicity(o)
    [] principle = "algorithmicTransparency" -> scoreAlgorithmicTransparency(o)
    [] principle = "algorithmicStability" -> scoreAlgorithmicStability(o)
    [] principle = "explainability" -> scoreExplainability(o)
    [] principle = "unbugginess" -> scoreUnbugginess(o)
    [] principle = "smallness" -> scoreSmallness(o)
    [] principle = "decomposability" -> scoreDecomposability(o)
    [] principle = "similarity" -> scoreSimilarity(o)

\* Object.values(scores).reduce((sum, score) => sum + score, 0), in key order
SumScores(scores, order) == RSumSeq([ i \in 1..Len(order) |-> scores[order[i]] ])

\* Math.round(sum / count)
RoundMean(sum, count) == MathRound(Norm(sum[1], sum[2] * count))

(***************************************************************************)
(* Recommendations.                                                        *)
(***************************************************************************)
\* ComprehensiveTestabilityAnalyzer.generateAIRecommendations: the fresh array
generateAIRecommendations(principles) ==
  LET entry(i) ==
        LET score == principles[PrincipleOrder[i]]
        IN [ principle |-> PrincipleOrder[i],
             score |-> score,
             priority |-> IF RLt(score, R(40)) THEN "Critical"
                          ELSE IF RLt(score, R(50)) THEN "High" ELSE "Medium" ]
  IN SelectSeq([ i \in 1..Len(PrincipleOrder) |-> entry(i) ],
               LAMBDA e : RLt(e.score, R(60)))

\* AITestabilityScorer.generateAIInsights: the entries it pushes
generateAIInsights(principleScores) ==
     (IF principleScores.observability < 70
      THEN << [ principle |-> "Observability", priority |-> "High" ] >> ELSE << >>)
  \o (IF principleScores.controllability < 70
      THEN << [ principle |-> "Controllability", priority |-> "High" ] >> ELSE << >>)
  \o (IF principleScores.explainability < 70
      THEN << [ principle |-> "Explainability", priority |-> "Medium" ] >> ELSE << >>)

\* TestabilityScorer.generateRecommendations: the fresh array
generateRecommendations(scores) ==
  LET entry(i) ==
        LET score == scores[PrincipleOrder[i]]
        IN [ principle |-> PrincipleOrder[i],
             score |-> score,
             priority |-> IF score < 50 THEN "High" ELSE "Medium" ]
  IN SelectSeq([ i \in 1..Len(PrincipleOrder) |-> entry(i) ],
               LAMBDA e : e.score < 70)

(***************************************************************************)
(* AIDebugger.  A session is named by the number of the run, or of the     *)
(* call, that started it.                                                  *)
(***************************************************************************)
\* this.debugSessions.set(sessionId, session)
startDebugSession(debugger, sessionId) ==
  [ debugger EXCEPT !.debugSessions = @ \cup { sessionId } ]

\* this.debugSessions.delete(sessionId)
endDebugSession(debugger, sessionId) ==
  [ debugger EXCEPT !.debugSessions = @ \ { sessionId } ]

(***************************************************************************)
(* Result objects.  recommendations is the address of the array the result *)
(* refers to (0: the result has none); page, computed and atReturn record  *)
(* for the properties below what the run observed, which scores its own    *)
(* steps computed, and what the array held when the result was returned.   *)
(***************************************************************************)
Result(cls, pg, overallScore, principleScores, computed, grade, recs, atReturn) ==
  [ scorer |-> cls, page |-> pg, error |-> "",
    overallScore |-> overallScore, principleScores |-> principleScores,
    computed |-> computed, grade |-> grade,
    recommendations |-> recs, atReturn |-> atReturn ]

\* { userType, error, scores: {} }
ErrorResult(cls, pg, message) ==
  [ Result(cls, pg, 0, << >>, << >>, "", 0, << >>) EXCEPT !.error = message ]

\* one instance is under assessment at a time, for at most MaxRuns runs
CanRun(cls) ==
  /\ Len(returned) < MaxRuns
  /\ \A i \in 1..Len(returned) : returned[i].scorer = cls

\* how the navigation and login of a run end
Logins == {"ok", "Login failed", "Timeout 30000ms exceeded"}

(***************************************************************************)
(* AITestabilityScorer.runAIAssessment                                     *)
(***************************************************************************)
RunAIAssessment ==
  /\ CanRun("ai")
  /\ \E pg \in Pages, login \in Logins :
       IF login # "ok"
       THEN /\ returned' = Append(returned, ErrorResult("ai", pg, login))
            /\ aiDebugger' = startDebugSession(aiDebugger, Len(returned) + 1)
            /\ UNCHANGED << heap, aiScorer >>
       ELSE LET computed == [ p \in FivePrinciples |-> scoreAIPrinciple(p, Observe(pg, p)) ]
                principleScores == [ p \in Principles |->
                                       IF p \in FivePrinciples THEN computed[p]
                                       ELSE aiScorer.principleScores[p] ]
                overallScore == RoundMean(SumScores(Rs2(principleScores), PrincipleOrder),
                                          Len(PrincipleOrder))
                suggestions == heap[aiScorer.improvementSuggestions]
                                 \o generateAIInsights(principleScores)
            IN /\ aiScorer' = [ aiScorer EXCEPT !.principleScores = principleScores ]
               /\ heap' = [ heap EXCEPT ![aiScorer.improvementSuggestions] = suggestions ]
               /\ aiDebugger' = endDebugSession(
                                   startDebugSession(aiDebugger, Len(returned) + 1),
                                   Len(returned) + 1)
               /\ returned' = Append(returned,
                    Result("ai", pg, overallScore, Rs2(principleScores), Rs2(computed),
                           getAIGrade(overallScore),
                           aiScorer.improvementSuggestions, suggestions))
  /\ UNCHANGED << phase, out, analyzer, scorer, calls >>

(***************************************************************************)
(* ComprehensiveTestabilityAnalyzer.runCompleteAnalysis, run to its return *)
(* without another call on the analyzer in between.                        *)
(***************************************************************************)
\* observed[pg][p] is what the analysis of principle p observes on page pg
CompleteAnalysis(observed) ==
  /\ CanRun("complete")
  /\ \E pg \in Pages, login \in Logins :
       IF login # "ok"
       THEN /\ returned' = Append(returned, ErrorResult("complete", pg, login))
            /\ aiDebugger' = startDebugSession(aiDebugger, Len(returned) + 1)
            /\ UNCHANGED << heap, analyzer >>
       ELSE LET principles == [ p \in Principles |-> analyzePrinciple(p, observed[pg][p]) ]
                overallScore == RoundMean(SumScores(principles, PrincipleOrder), 10)
                recommendations == generateAIRecommendations(principles)
            IN /\ heap' = Append(heap, recommendations)
               /\ analyzer' = [ analyzer EXCEPT !.principles = principles,
                                                !.aiRecommendations = Len(heap) + 1 ]
               /\ aiDebugger' = endDebugSession(
                                   startDebugSession(aiDebugger, Len(returned) + 1),
                                   Len(returned) + 1)
               /\ returned' = Append(returned,
                    Result("complete", pg, overallScore, principles, principles,
                           getGrade(overallScore), Len(heap) + 1, recommendations))
  /\ UNCHANGED << phase, out, aiScorer, scorer, calls >>

Observations == [ pg \in Pages |-> [ p \in Principles |-> Observe(pg, p) ] ]

RunCompleteAnalysis == CompleteAnalysis(Observations)

(***************************************************************************)
(* QuickTestabilityScorer.runQuickAssessment                               *)
(***************************************************************************)
RunQuickAssessment ==
  /\ CanRun("quick")
  /\ \E pg \in Pages, login \in Logins :
       IF login # "ok"
       THEN returned' = Append(returned, ErrorResult("quick", pg, login))
       ELSE LET scores == [ p \in FivePrinciples |-> quickScorePrinciple(p, Observe(pg, p)) ]
                overallScore == RoundMean(SumScores(Rs2(scores), FiveOrder), Len(FiveOrder))
            IN returned' = Append(returned,
                 Result("quick", pg, overallScore, Rs2(scores), Rs2(scores),
                        quickGetGrade(overallScore), 0, << >>))
  /\ UNCHANGED << phase, out, heap, aiScorer, analyzer, scorer, calls, aiDebugger >>

(***************************************************************************)
(* TestabilityScorer: the ten score* calls of an assessment followed by    *)
(* calculateOverallScore; the result is what scorer.results then holds.    *)
(***************************************************************************)
CalculateOverallScore ==
  /\ CanRun("scorer")
  /\ \E pg \in Pages :
       LET scores == [ p \in Principles |-> scorePrinciple(p, Observe(pg, p)) ]
           overallScore == RoundMean(SumScores(Rs2(scores), PrincipleOrder),
                                     Len(PrincipleOrder))
           recommendations == generateRecommendations(scores)
       IN /\ heap' = Append(heap, recommendations)
          /\ scorer' = [ scorer EXCEPT !.scores = scores,
                                       !.recommendations = Len(heap) + 1 ]
          /\ returned' = Append(returned,
               Result("scorer", pg, overallScore, Rs2(scores), Rs2(scores),
                      scorerGetGrade(overallScore), Len(heap) + 1, recommendations))
  /\ UNCHANGED << phase, out, aiScorer, analyzer, calls, aiDebugger >>

Init == /\ phase = "idle"
        /\ out = NoOutcome
        /\ InitInstances

Next == \/ RunAIAssessment
        \/ RunCompleteAnalysis
        \/ RunQuickAssessment
        \/ CalculateOverallScore

Spec == Init /\ [][Next]_vars

(***************************************************************************)
(* ComprehensiveTestabilityAnalyzer.runCompleteAnalysis, one await at a    *)
(* time.  The comparative test races each call against a timer and, when   *)
(* the timer wins, goes on to call the same analyzer for the next user     *)
(* while the earlier call is still awaiting its analyses.                  *)
(*   calls[c].pc        how many principles call c has assigned            *)
(*   calls[c].own       the scores the analyses of call c returned         *)
(*   calls[c].timedOut  the caller's timer has fired                       *)
(***************************************************************************)
OverlapPages == { pg \in Pages : pg.failing = "none" /\ pg.flag }

InFlight(c) == calls[c].pc < Len(PrincipleOrder)

\* the caller starts a call once it no longer waits for the one before
StartCall ==
  /\ Len(calls) < MaxCalls
  /\ \A c \in 1..Len(calls) : ~InFlight(c) \/ calls[c].timedOut
  /\ \E pg \in OverlapPages, login \in Logins :
       IF login # "ok"
       THEN /\ calls' = Append(calls, [ page |-> pg, pc |-> Len(PrincipleOrder),
                                        own |-> << >>, timedOut |-> FALSE ])
            /\ returned' = Append(returned, ErrorResult("complete", pg, login))
       ELSE /\ calls' = Append(calls, [ page |-> pg, pc |-> 0,
                                        own |-> << >>, timedOut |-> FALSE ])
            /\ UNCHANGED returned
  /\ aiDebugger' = startDebugSession(aiDebugger, Len(calls) + 1)
  /\ UNCHANGED << phase, out, heap, aiScorer, analyzer, scorer >>

\* setTimeout(() => reject(...), user.timeout) fires before the call returns
Timeout ==
  \E c \in 1..Len(calls) :
    /\ InFlight(c) /\ ~calls[c].timedOut
    /\ calls' = [ calls EXCEPT ![c].timedOut = TRUE ]
    /\ UNCHANGED << phase, out, heap, aiScorer, analyzer, scorer, returned, aiDebugger >>

\* this.principles.<p> = await this.analyze<P>(page, ...), for the first nine
AnalysisStep ==
  \E c \in 1..Len(calls) :
    /\ calls[c].pc < Len(PrincipleOrder) - 1
    /\ LET p == PrincipleOrder[calls[c].pc + 1]
           score == analyzePrinciple(p, Observe(calls[c].page, p))
       IN /\ analyzer' = [ analyzer EXCEPT !.principles[p] = score ]
          /\ calls' = [ calls EXCEPT ![c].pc = @ + 1,
                                     ![c].own = Append(@, score) ]
    /\ UNCHANGED << phase, out, heap, aiScorer, scorer, returned, aiDebugger >>

\* the last analysis resolves; the call runs on to its return statement
CompleteStep ==
  \E c \in 1..Len(calls) :
    /\ calls[c].pc = Len(PrincipleOrder) - 1
    /\ LET p == PrincipleOrder[Len(PrincipleOrder)]
           score == analyzePrinciple(p, Observe(calls[c].page, p))
           principles == [ analyzer.principles EXCEPT ![p] = score ]
           own == Append(calls[c].own, score)
           overallScore == RoundMean(SumScores(principles, PrincipleOrder), 10)
           recommendations == generateAIRecommendations(principles)
       IN /\ analyzer' = [ analyzer EXCEPT !.principles = principles,
                                           !.aiRecommendations = Len(heap) + 1 ]
          /\ heap' = Append(heap, recommendations)
          /\ calls' = [ calls EXCEPT ![c].pc = @ + 1, ![c].own = own ]
          /\ returned' = Append(returned,
               Result("complete", calls[c].page, overallScore, principles,
                      [ q \in Principles |->
                          own[CHOOSE i \in 1..Len(PrincipleOrder) : PrincipleOrder[i] = q] ],
                      getGrade(overallScore), Len(heap) + 1, recommendations))
    /\ aiDebugger' = endDebugSession(aiDebugger, c)
    /\ UNCHANGED << phase, out, aiScorer, scorer >>

NextOverlap == StartCall \/ Timeout \/ AnalysisStep \/ CompleteStep

SpecOverlap == Init /\ [][NextOverlap]_vars

(***************************************************************************)
(* Properties of a single scoring call (SpecScore).                        *)
(***************************************************************************)
ScoreReturned == phase = "returned" /\ out.principle \in Principles
GradeReturned == phase = "returned" /\ out.principle = "overall"

\* C1: every principle score an analyze*, scoreAI*, quick score* or score*
\* method returns lies in [0,100], on the catch path as well.
C1_ScoreInRange ==
  ScoreReturned => RLe(R(0), out.score) /\ RLe(out.score, R(100))

\* the cap at 100 of scoreAIObservability at work: metrics and bonus exceed 100
C1_Witness ==
  /\ ScoreReturned /\ out.scorer = "ai" /\ out.principle = "observability"
  /\ ~out.failed /\ out.score = R(100)
  /\ RLt(R(100), RAdd(RSumSeq(out.metrics), R(out.bonus)))

\* a catch path returning its fallback score
C1_WitnessFailed ==
  ScoreReturned /\ out.failed /\ out.scorer = "complete" /\ out.score = R(60)

\* the letter of a grade string
GradeLetter(grade) ==
  CASE grade \in {"A+ (AI-Optimized)"} -> "A+"
    [] grade \in {"A (Excellent)", "A (Excellent for AI)", "(A)"} -> "A"
    [] grade \in {"B (Good)", "B (Good for AI)", "(B)"} -> "B"
    [] grade \in {"C (Average)", "C (Average for AI)", "(C)"} -> "C"
    [] grade \in {"D (Below Average)", "D (Below AI Standards)", "(D)"} -> "D"
    [] grade \in {"F (Poor)", "F (Not AI-Ready)", "(F)"} -> "F"
    [] OTHER -> "?"

Ladder(score) ==
  IF score >= 90 THEN "A" ELSE IF score >= 80 THEN "B"
  ELSE IF score >= 70 THEN "C" ELSE IF score >= 60 THEN "D" ELSE "F"

\* C3 as stated: every grade method maps 90..100 to A, 80..89 to B, 70..79 to C,
\* 60..69 to D and 0..59 to F.
C3_Original ==
  GradeReturned => GradeLetter(out.grade) = Ladder(out.score[1])

\* C3: getGrade maps 90..100 to A, 80..89 to B, 70..79 to C, 60..69 to D and
\* 0..59 to F; getAIGrade does the same below 95 and maps 95..100 to A+.
C3_GradeLadder ==
  GradeReturned =>
    GradeLetter(out.grade) = IF out.scorer = "ai" /\ out.score[1] >= 95
                             THEN "A+" ELSE Ladder(out.score[1])

C3_Witness ==
  GradeReturned /\ out.scorer = "ai" /\ out.score = R(95)
                /\ out.grade = "A+ (AI-Optimized)"

\* C9 as stated: a score returned off the catch path is the sum of the method's
\* sub-metric outputs and nothing else.
C9_Original ==
  ScoreReturned /\ ~out.failed => out.score = RSumSeq(out.metrics)

\* C9: a score returned off the catch path is the sum of the method's sub-metric
\* outputs, except that scoreAIObservability adds its intelligence bonus of at
\* most five points and caps the total at 100.
C9_SumPlusBonus ==
  ScoreReturned /\ ~out.failed =>
    /\ out.bonus \in 0..5
    /\ out.bonus > 0 => out.scorer = "ai" /\ out.principle = "observability"
    /\ out.score = RMin(R(100), RAdd(RSumSeq(out.metrics), R(out.bonus)))

C9_Witness ==
  /\ ScoreReturned /\ ~out.failed /\ out.scorer = "ai" /\ out.principle = "observability"
  /\ out.bonus = 5 /\ out.score = RAdd(RSumSeq(out.metrics), R(5))

\* C10: every sub-metric output of a scoring method lies between 0 and the
\* budget declared for it.
C10_WithinBudget ==
  ScoreReturned /\ ~out.failed =>
    /\ Len(out.metrics) = Len(out.budgets)
    /\ \A i \in 1..Len(out.metrics) :
         RLe(R(0), out.metrics[i]) /\ RLe(out.metrics[i], R(out.budgets[i]))

\* the interaction-pattern metric of scoreAIAlgorithmicSimplicity, budget 30
C10_Witness ==
  /\ ScoreReturned /\ ~out.failed /\ out.scorer = "ai"
  /\ out.principle = "algorithmicSimplicity"
  /\ out.budgets[2] = 30 /\ out.metrics[2] = R(20) /\ out.metrics[1] = R(40)

(***************************************************************************)
(* Properties of whole runs (Spec).                                        *)
(***************************************************************************)
Successful(r) == r.error = ""
Runs == { i \in 1..Len(returned) : Successful(returned[i]) }

\* the principle a recommendation entry is about
EntryPrinciple(e) ==
  CASE e.principle = "Observability" -> "observability"
    [] e.principle = "Controllability" -> "controllability"
    [] e.principle = "Explainability" -> "explainability"
    [] OTHER -> e.principle

EntriesFor(recs, principle) ==
  Cardinality({ i \in 1..Len(recs) : EntryPrinciple(recs[i]) = principle })

\* the mean of the scores the run computed, rounded
MeanOfComputed(r) ==
  LET order == SelectSeq(PrincipleOrder, LAMBDA p : p \in DOMAIN r.computed)
  IN RoundMean(SumScores(r.computed, order), Len(order))

\* C2: the overall score of a successful run is the rounded mean of exactly the
\* principle scores that run computed (ten, or five for the AI and quick runs).
C2_OverallIsMean ==
  \A i \in Runs : returned[i].overallScore = MeanOfComputed(returned[i])

\* an AI run over five scores whose overall score is not their rounded mean
C2_Witness ==
  \E i \in Runs :
    /\ returned[i].scorer = "ai"
    /\ returned[i].overallScore # MeanOfComputed(returned[i])
    /\ Cardinality(DOMAIN returned[i].computed) = 5

\* C4: the recommendation list of a successful run holds exactly one entry for
\* each scored principle below 70 and none for a principle at 70 or above.
C4_RecommendationPerLowScore ==
  \A i \in Runs :
    returned[i].scorer # "quick" =>
      \A p \in DOMAIN returned[i].computed :
        EntriesFor(returned[i].atReturn, p)
          = IF RLt(returned[i].computed[p], R(70)) THEN 1 ELSE 0

\* a complete analysis with a principle at 60..69 and no entry for it
C4_Witness ==
  \E i \in Runs :
    /\ returned[i].scorer = "complete"
    /\ \E p \in Principles :
         /\ RLe(R(60), returned[i].computed[p])
         /\ RLt(returned[i].computed[p], R(70))
         /\ EntriesFor(returned[i].atReturn, p) = 0

\* C5: two successful runs of one instance on the same page return the same
\* principle scores, overall score, grade and recommendation list.
C5_SameInputSameResult ==
  \A i, j \in Runs :
    returned[i].page = returned[j].page =>
      /\ returned[i].principleScores = returned[j].principleScores
      /\ returned[i].overallScore = returned[j].overallScore
      /\ returned[i].grade = returned[j].grade
      /\ returned[i].atReturn = returned[j].atReturn

\* the second of two AI runs on one page returns the first run's entries as well
C5_Witness ==
  \E i, j \in Runs :
    /\ i < j /\ returned[i].scorer = "ai" /\ returned[i].page = returned[j].page
    /\ returned[i].principleScores = returned[j].principleScores
    /\ Len(returned[j].atReturn) = 2 * Len(returned[i].atReturn)
    /\ Len(returned[i].atReturn) > 0

\* C6: the recommendation list a run returns holds at most one entry per principle.
C6_OneEntryPerPrinciple ==
  \A i \in Runs : \A p \in Principles : EntriesFor(returned[i].atReturn, p) <= 1

\* an AI run returning two entries for observability
C6_Witness ==
  \E i \in Runs :
    returned[i].scorer = "ai" /\ EntriesFor(returned[i].atReturn, "observability") = 2

\* C8: the recommendation list a returned result refers to stays as it was when
\* the result was returned.
C8_ResultUnchanged ==
  \A i \in Runs :
    returned[i].recommendations # 0 =>
      heap[returned[i].recommendations] = returned[i].atReturn

\* the first AI result's list has grown by the second run's entries
C8_Witness ==
  \E i \in Runs :
    /\ returned[i].scorer = "ai"
    /\ Len(heap[returned[i].recommendations]) > Len(returned[i].atReturn)

(***************************************************************************)
(* Properties of overlapping calls (SpecOverlap).                          *)
(***************************************************************************)
\* C7: the principleScores and the overallScore a runCompleteAnalysis call
\* returns hold only the scores that call's own analyses computed, also when
\* calls on the analyzer overlap.
C7_OwnScoresOnly ==
  \A i \in Runs :
    /\ returned[i].principleScores = returned[i].computed
    /\ returned[i].overallScore = MeanOfComputed(returned[i])

\* a call returns a score which the analysis of another call, on another page,
\* assigned while the two overlapped
C7_Witness ==
  /\ \E c \in 1..Len(calls) : calls[c].timedOut
  /\ \E i \in Runs, p \in Principles :
       /\ returned[i].principleScores[p] # returned[i].computed[p]
       /\ \E c \in 1..Len(calls) :
            /\ calls[c].page # returned[i].page
            /\ returned[i].principleScores[p]
                 = analyzePrinciple(p, Observe(calls[c].page, p))


(***************************************************************************)
(* A scoring call during which one awaited observation rejects (the page   *)
(* was closed, a locator timed out).  baseline holds the sub-metrics the   *)
(* call would have added had the observation been collected, affected the  *)
(* sub-metric that consumes the observation, raised whether the call       *)
(* rejects instead of returning a score.                                   *)
(***************************************************************************)
Fault(cls, principle, baseline, budgets, affected, bonus, score, raised) ==
  [ scorer |-> cls, principle |-> principle, baseline |-> baseline,
    budgets |-> budgets, affected |-> affected, bonus |-> bonus,
    score |-> score, raised |-> raised ]

FaultPages == { pg \in Pages : pg.failing = "none" }

FaultReturns(f) == /\ phase' = "fault"
                   /\ out' = f
                   /\ UNCHANGED runVars

\* analyzeObservability: the page.evaluate or one of the three locator counts
\* rejects inside the method's single try block
AnalyzeObservabilityFault ==
  /\ Idle
  /\ \E o \in [ localStorage : ZeroOne, sessionStorage : ZeroOne, cookies : BOOLEAN,
             readyStateComplete : BOOLEAN, dataTestElements : Counts,
             errorElements : ZeroOne, visualElements : Counts,
             debugSessionId : BOOLEAN, networkRequests : ZeroOne, throws : {TRUE} ],
        k \in 1..4 :
    FaultReturns(Fault("complete", "observability",
                       analyzeObservabilityMetrics(o), CompleteBudgets.observability,
                       k, 0, analyzeObservability(o), FALSE))

\* QuickTestabilityScorer.scoreObservability: one of its three locator counts
\* rejects; the method has no try block
QuickScoreObservabilityFault ==
  /\ Idle
  /\ \E o \in [ dataTestElements : Counts, errorElements : ZeroOne, imageElements : Counts ],
        k \in 1..3 :
    FaultReturns(Fault("quick", "observability", Rs(quickObservabilityMetrics(o)),
                       QuickBudgets.observability, k, 0, R(0), TRUE))

\* TestabilityScorer.scoreObservability: page.evaluate (1) and page.screenshot (4)
\* have a try block of their own, testResults.networkRequests (2) may be
\* absent, the locator counts (3, 5) are awaited outside any try block
ScoreObservabilityFault ==
  /\ Idle
  /\ \E o \in [ stateThrows : {FALSE}, localStorage : ZeroOne, sessionStorage : ZeroOne,
             cookies : BOOLEAN, networkRequests : ZeroOne, errorElements : ZeroOne,
             screenshotThrows : {FALSE}, dataTestElements : Counts ],
        k \in 1..5 :
    LET faulty == CASE k = 1 -> [ o EXCEPT !.stateThrows = TRUE ]
                    [] k = 2 -> [ o EXCEPT !.networkRequests = 0 ]
                    [] k = 4 -> [ o EXCEPT !.screenshotThrows = TRUE ]
                    [] OTHER -> o
    IN FaultReturns(Fault("scorer", "observability", Rs(scoreObservabilityMetrics(o)),
                          ClassicBudgets.observability, k, 0,
                          IF k \in {3, 5} THEN R(0) ELSE R(scoreObservability(faulty)),
                          k \in {3, 5}))

\* scoreAIObservability: analyzeStateCapture (2), analyzeErrorVisibility (3),
\* analyzeVisualCapabilities (4) or analyzeNetworkMonitoring (5) meets a
\* rejection inside its own try block
ScoreAIObservabilityFault ==
  /\ Idle
  /\ \E pg \in FaultPages, k \in 2..5 :
    LET o == Observe(pg, "observability")
        faulty == CASE k = 2 -> [ o EXCEPT !.stateThrows = TRUE ]
                    [] k = 3 -> [ o EXCEPT !.errorThrows = TRUE ]
                    [] k = 4 -> [ o EXCEPT !.screenshotThrows = TRUE ]
                    [] k = 5 -> [ o EXCEPT !.networkThrows = TRUE ]
    IN FaultReturns(Fault("ai", "observability", Rs(scoreAIObservabilityMetrics(o)),
                          AIBudgets.observability, k, calculateIntelligenceBonus(o),
                          R(scoreAIObservability(faulty)), FALSE))

NextFault == \/ AnalyzeObservabilityFault
             \/ QuickScoreObservabilityFault
             \/ ScoreObservabilityFault
             \/ ScoreAIObservabilityFault

SpecFault == Init /\ [][NextFault]_vars

(***************************************************************************)
(* Properties of a scoring call with a failing observation (SpecFault).    *)
(***************************************************************************)
FaultReturned == phase = "fault"

\* what the sub-metrics other than the affected one, and the bonus, add up to
OthersSum(f) == RAdd(RSumSeq([ f.baseline EXCEPT ![f.affected] = R(0) ]), R(f.bonus))

\* C11: when one observation of a scoring call fails or is absent, the call
\* returns a score instead of raising, and the score is made of the values the
\* other sub-metrics would have had anyway plus a value within the affected
\* sub-metric's budget.
C11_FaultIsLocal ==
  FaultReturned =>
    /\ ~out.raised
    /\ RLe(OthersSum(out), out.score)
    /\ RLe(out.score, RAdd(OthersSum(out), R(out.budgets[out.affected])))

\* analyzeObservability answers a rejected data-test count with its fallback 20
\* although its other four sub-metrics alone would have added up to 75
C11_Witness ==
  /\ FaultReturned /\ out.scorer = "complete" /\ out.affected = 2
  /\ ~out.raised /\ out.score = R(20) /\ OthersSum(out) = R(75)

(***************************************************************************)
(* Properties of the fallback scores (SpecScore).                          *)
(***************************************************************************)
\* the score the analysis of a principle returns when it succeeds on page pg
SucceedingScore(cls, principle, pg) ==
  IF cls = "complete" THEN analyzePrinciple(principle, Observe(pg, principle))
  ELSE R(scoreAIPrinciple(principle, Observe(pg, principle)))

\* C12: the score an analysis falls back to after a failure is no higher than
\* any score the same analysis returns when it succeeds.
C12_FallbackIsWorstCase ==
  ScoreReturned /\ out.failed =>
    \A pg \in FaultPages :
      RLe(out.score, SucceedingScore(out.scorer, out.principle, pg))

\* analyzeDecomposability falls back to 50 and scores the empty page 0
C12_Witness ==
  /\ ScoreReturned /\ out.failed /\ out.scorer = "complete"
  /\ out.principle = "decomposability" /\ out.score = R(50)
  /\ SucceedingScore("complete", "decomposability",
                     [ count |-> 0, flag |-> FALSE, failing |-> "none" ]) = R(0)

(***************************************************************************)
(* Aggregation of principle scores: TestabilityScorer.calculateOverallScore*)
(* after only some score* methods were called, and the report helpers      *)
(* calculatePrincipleBreakdown and HTMLReportGenerator.processResults over *)
(* result objects whose principleScores may lack principles (the results   *)
(* of a five-principle scorer, or of an older run).  The repository        *)
(* defines no error class and these functions contain no throw statement.  *)
(***************************************************************************)
\* the number 0/0 evaluates to
NaN == << 0, 0 >>

ScoreDomains == { Principles, FivePrinciples, Principles \ {"similarity"} }

\* a result object as the report helpers read it
ReportResult(pg, dom) ==
  LET principleScores == [ p \in dom |-> analyzePrinciple(p, Observe(pg, p)) ]
      order == SelectSeq(PrincipleOrder, LAMBDA p : p \in dom)
  IN [ error |-> "", principleScores |-> principleScores,
       overallScore |-> RoundMean(SumScores(principleScores, order), Len(order)) ]

ReportResults ==
  { ReportResult(pg, dom) : pg \in FaultPages, dom \in ScoreDomains }
    \cup { [ error |-> "Login failed", principleScores |-> << >>, overallScore |-> 0 ] }

ResultLists == { << r >> : r \in ReportResults }
                 \cup { << r1, r2 >> : r1 \in ReportResults, r2 \in ReportResults }

\* results.filter(r => !r.error)
SuccessfulResults(results) == SelectSeq(results, LAMBDA r : r.error = "")

\* the principles some successful result has no score for
MissingIn(results) ==
  { p \in Principles :
      \E i \in 1..Len(results) :
        results[i].error = "" /\ p \notin DOMAIN results[i].principleScores }

\* calculatePrincipleBreakdown(results.filter(r => !r.error)): a sum with an
\* undefined term is NaN, and Math.round(NaN) is NaN
calculatePrincipleBreakdown(results) ==
  IF Len(results) = 0 THEN << >>
  ELSE [ p \in Principles |->
           IF \E i \in 1..Len(results) : p \notin DOMAIN results[i].principleScores
           THEN NaN
           ELSE R(RoundMean(RSumSeq([ i \in 1..Len(results) |->
                                        results[i].principleScores[p] ]),
                            Len(results))) ]

\* processResults: principleAverages and overallAverage; a missing score counts
\* as 0 (r.principleScores?.[principle] || 0)
processResults(results) ==
  LET successfulResults == SuccessfulResults(results)
      n == Len(successfulResults)
      scoreOf(r, p) == IF p \in DOMAIN r.principleScores
                       THEN r.principleScores[p] ELSE R(0)
  IN [ principleAverages |->
         [ p \in Principles |->
             IF n > 0
             THEN R(RoundMean(RSumSeq([ i \in 1..n |-> scoreOf(successfulResults[i], p) ]), n))
             ELSE R(0) ],
       overallAverage |->
         IF n > 0
         THEN RoundMean(R(SumSeq([ i \in 1..n |-> successfulResults[i].overallScore ])), n)
         ELSE 0 ]

\* what an aggregation produced: the principles its input lacked, the error it
\* raised ("" when it returned), and the value it returned
Aggregated(op, missing, raised, value) ==
  [ op |-> op, missing |-> missing, raised |-> raised, value |-> value ]

AggregateReturns(a) == /\ phase' = "aggregated"
                       /\ out' = a
                       /\ UNCHANGED runVars

\* calculateOverallScore on a scorer whose score* methods were called for the
\* principles in scored only: this.scores keeps its initial 0 for the others
CalculateOverallScoreOf ==
  /\ Idle
  /\ \E pg \in FaultPages, scored \in ScoreDomains \cup { {} } :
       LET scores == [ p \in Principles |->
                         IF p \in scored THEN scorePrinciple(p, Observe(pg, p))
                         ELSE scorer.scores[p] ]
       IN AggregateReturns(Aggregated("calculateOverallScore", Principles \ scored, "",
            R(RoundMean(SumScores(Rs2(scores), PrincipleOrder), Len(PrincipleOrder)))))

CalculatePrincipleBreakdown ==
  /\ Idle
  /\ \E results \in ResultLists :
       AggregateReturns(Aggregated("calculatePrincipleBreakdown", MissingIn(results), "",
                                   calculatePrincipleBreakdown(SuccessfulResults(results))))

ProcessResults ==
  /\ Idle
  /\ \E results \in ResultLists :
       AggregateReturns(Aggregated("processResults", MissingIn(results), "",
                                   processResults(results)))

NextAggregate == CalculateOverallScoreOf \/ CalculatePrincipleBreakdown \/ ProcessResults

SpecAggregate == Init /\ [][NextAggregate]_vars

(***************************************************************************)
(* Properties of the aggregation (SpecAggregate).                          *)
(***************************************************************************)
AggregateReturned == phase = "aggregated"

\* C13: an aggregation whose input lacks a required principle fails with a
\* ConfigurationError and returns neither an overall score nor an average.
C13_MissingPrincipleFails ==
  AggregateReturned /\ out.missing # {} => out.raised = "ConfigurationError"

\* calculatePrincipleBreakdown returns NaN for the principles a five-principle
\* result lacks, and an average for the others
C13_Witness ==
  /\ AggregateReturned /\ out.op = "calculatePrincipleBreakdown"
  /\ out.raised = "" /\ "similarity" \in out.missing
  /\ out.value # << >>
  /\ out.value["similarity"] = NaN /\ out.value["observability"] # NaN

(***************************************************************************)
(* Properties of the recommendation lists (Spec).                          *)
(***************************************************************************)
PriorityRank(priority) ==
  CASE priority = "Critical" -> 3
    [] priority = "High" -> 2
    [] priority = "Medium" -> 1

\* the place of a principle in the declaration order
PrincipleIndex(principle) ==
  CHOOSE i \in 1..Len(PrincipleOrder) : PrincipleOrder[i] = principle

\* by descending priority, and by declaration order among equal priorities
OrderedByPriority(recs) ==
  \A a, b \in 1..Len(recs) :
    a < b =>
      \/ PriorityRank(recs[a].priority) > PriorityRank(recs[b].priority)
      \/ /\ PriorityRank(recs[a].priority) = PriorityRank(recs[b].priority)
         /\ PrincipleIndex(EntryPrinciple(recs[a])) < PrincipleIndex(EntryPrinciple(recs[b]))

\* C14: the recommendation list of a run lists all Critical entries, then all
\* High entries, then all Medium entries, and entries of equal priority in
\* the declaration order of their principles.
C14_OrderedByPriority ==
  \A i \in Runs : OrderedByPriority(returned[i].atReturn)

\* a complete analysis whose list has a less severe entry ahead of a Critical one
C14_Witness ==
  \E i \in Runs :
    /\ returned[i].scorer = "complete"
    /\ \E a, b \in 1..Len(returned[i].atReturn) :
         /\ a < b
         /\ returned[i].atReturn[a].priority # "Critical"
         /\ returned[i].atReturn[b].priority = "Critical"

\* the priority of the ladder: below 40 Critical, below 50 High, otherwise Medium
PriorityLadder(score) ==
  IF RLt(score, R(40)) THEN "Critical"
  ELSE IF RLt(score, R(50)) THEN "High" ELSE "Medium"

\* the score the run computed for the principle of entry e
EntryScore(r, e) == r.computed[EntryPrinciple(e)]

BudgetsOf(cls) ==
  CASE cls = "complete" -> CompleteBudgets
    [] cls = "ai" -> AIBudgets
    [] cls = "quick" -> QuickBudgets
    [] cls = "scorer" -> ClassicBudgets

\* the sub-metric tuples the analyze* methods add up
CompleteMetricsOver(principle) ==
  CASE principle = "observability" ->
         { analyzeObservabilityMetrics(o) : o \in AnalyzeObservabilityInputs }
    [] principle = "controllability" ->
         { analyzeControllabilityMetrics(o) : o \in AnalyzeControllabilityInputs }
    [] principle = "algorithmicSimplicity" ->
         { analyzeAlgorithmicSimplicityMetrics(o) : o \in AnalyzeAlgorithmicSimplicityInputs }
    [] principle = "algorithmicTransparency" ->
         { analyzeAlgorithmicTransparencyMetrics(o) : o \in AnalyzeAlgorithmicTransparencyInputs }
    [] principle = "algorithmicStability" ->
         { analyzeAlgorithmicStabilityMetrics(o) : o \in AnalyzeAlgorithmicStabilityInputs }
    [] principle = "explainability" ->
         { analyzeExplainabilityMetrics(o) : o \in { x \in AnalyzeExplainabilityInputs : x.altTexts <= x.totalImages } }
    [] principle = "unbugginess" ->
         { analyzeUnbugginessMetrics(o) : o \in AnalyzeUnbugginessInputs }
    [] principle = "smallness" ->
         { analyzeSmallnessMetrics(o) : o \in AnalyzeSmallnessInputs }
    [] principle = "decomposability" ->
         { analyzeDecomposabilityMetrics(o) : o \in AnalyzeDecomposabilityInputs }
    [] principle = "similarity" ->
         { analyzeSimilarityMetrics(o) : o \in AnalyzeSimilarityInputs }

\* the sub-metric tuples the scoreAI* methods add up
AIMetricsOver(principle) ==
  CASE principle = "observability" ->
         { Rs(<< analyzeDataTestAttributes(dt), analyzeStateCapture(st),
                 analyzeErrorVisibility([ dataTest |-> dt ] @@ ev),
                 analyzeVisualCapabilities(vo), analyzeNetworkMonitoring(no) >>) :
             dt \in DataTestLists, st \in StateCaptureObs, ev \in ErrorVisibilityObs,
             vo \in VisualObs, no \in NetworkObs }
    [] principle = "controllability" ->
         { Rs(scoreAIControllabilityMetrics(o)) : o \in ScoreAIControllabilityInputs }
    [] principle = "algorithmicSimplicity" ->
         { Rs(scoreAIAlgorithmicSimplicityMetrics(o)) : o \in ScoreAIAlgorithmicSimplicityInputs }
    [] principle = "explainability" ->
         { Rs(scoreAIExplainabilityMetrics(o)) : o \in ScoreAIExplainabilityInputs }
    [] principle = "decomposability" ->
         { Rs(scoreAIDecomposabilityMetrics(o)) : o \in ScoreAIDecomposabilityInputs }

\* the sub-metric tuples the score* methods of QuickTestabilityScorer add up
QuickMetricsOver(principle) ==
  CASE principle = "observability" ->
         { Rs(quickObservabilityMetrics(o)) : o \in QuickScoreObservabilityInputs }
    [] principle = "controllability" ->
         { Rs(quickControllabilityMetrics(o)) : o \in QuickScoreControllabilityInputs }
    [] principle = "algorithmicSimplicity" ->
         { Rs(quickAlgorithmicSimplicityMetrics(o)) : o \in QuickScoreAlgorithmicSimplicityInputs }
    [] principle = "explainability" ->
         { Rs(quickExplainabilityMetrics(o)) : o \in QuickScoreExplainabilityInputs }
    [] principle = "decomposability" ->
         { Rs(quickDecomposabilityMetrics(o)) : o \in QuickScoreDecomposabilityInputs }

\* the sub-metric tuples the score* methods of TestabilityScorer add up
ClassicMetricsOver(principle) ==
  CASE principle = "observability" ->
         { Rs(scoreObservabilityMetrics(o)) : o \in ScoreObservabilityInputs }
    [] principle = "controllability" ->
         { Rs(scoreControllabilityMetrics(o)) : o \in ScoreControllabilityInputs }
    [] principle = "algorithmicSimplicity" ->
         { Rs(scoreAlgorithmicSimplicityMetrics(o)) : o \in ScoreAlgorithmicSimplicityInputs }
    [] principle = "algorithmicTransparency" ->
         { Rs(scoreAlgorithmicTransparencyMetrics(o)) : o \in ScoreAlgorithmicTransparencyInputs }
    [] principle = "algorithmicStability" ->
         { Rs(scoreAlgorithmicStabilityMetrics(o)) : o \in ScoreAlgorithmicStabilityInputs }
    [] principle = "explainability" ->
         { Rs(scoreExplainabilityMetrics(o)) : o \in ScoreExplainabilityInputs }
    [] principle = "unbugginess" ->
         { Rs(scoreUnbugginessMetrics(o)) : o \in ScoreUnbugginessInputs }
    [] principle = "smallness" ->
         { Rs(scoreSmallnessMetrics(o)) : o \in ScoreSmallnessInputs }
    [] principle = "decomposability" ->
         { Rs(scoreDecomposabilityMetrics(o)) : o \in ScoreDecomposabilityInputs }
    [] principle = "similarity" ->
         { Rs(scoreSimilarityMetrics(o)) : o \in ScoreSimilarityInputs }

MetricsOver(cls, principle) ==
  CASE cls = "complete" -> CompleteMetricsOver(principle)
    [] cls = "ai" -> AIMetricsOver(principle)
    [] cls = "quick" -> QuickMetricsOver(principle)
    [] cls = "scorer" -> ClassicMetricsOver(principle)

\* the largest k-th component of the tuples in T
LargestOf(T, k) ==
  LET V == { t[k] : t \in T }
  IN CHOOSE v \in V : \A w \in V : RLe(w, v)

\* one sub-metric of one scoring method is surveyed
SurveySubMetric ==
  /\ Idle
  /\ \E cls \in {"complete", "ai", "quick", "scorer"}, principle \in Principles :
       /\ principle \in DOMAIN BudgetsOf(cls)
       /\ LET T == MetricsOver(cls, principle)
              budgets == BudgetsOf(cls)[principle]
              largest == [ k \in 1..Len(budgets) |-> LargestOf(T, k) ]
          IN \E k \in 1..Len(budgets) :
               /\ phase' = "surveyed"
               /\ out' = [ scorer |-> cls, principle |-> principle, metric |-> k,
                           largest |-> largest, budgets |-> budgets ]
               /\ UNCHANGED runVars

NextBudget == SurveySubMetric

SpecBudget == Init /\ [][NextBudget]_vars

(***************************************************************************)
(* Properties of the sub-metric budgets (SpecBudget).                      *)
(***************************************************************************)
Surveyed == phase = "surveyed"

\* C16: for every principle of every scorer, the largest values its
\* sub-metrics can return add up to exactly 100.
C16_LargestValuesSumTo100 ==
  Surveyed => RSumSeq(out.largest) = R(100)

\* the five sub-metrics of scoreAIExplainability return 25, 20, 15, 10 and 8
\* at most, 78 together, against declared budgets of 30, 25, 20, 15 and 10
C16_Witness ==
  /\ Surveyed /\ out.scorer = "ai" /\ out.principle = "explainability"
  /\ out.largest = Rs(<< 25, 20, 15, 10, 8 >>)
  /\ SumSeq(out.budgets) = 100


(***************************************************************************)
(* Properties of a run on the empty page (Spec).                           *)
(***************************************************************************)
\* every locator finds nothing, every yes/no probe is false, nothing throws
EmptyPage == [ count |-> 0, flag |-> FALSE, failing |-> "none" ]

\* the principles of the entries of a list, in list order
EntryPrinciples(recs) == [ a \in 1..Len(recs) |-> EntryPrinciple(recs[a]) ]

DataTestCounts == 0..MaxDataTest

\* what the analyses observe on a page of n data-test elements
ObserveDataTest(n, principle) ==
  [ Observe(EmptyPage, principle) EXCEPT
      !.dataTestElements = n, !.testableElements = n, !.isolatedElements = n,
      !.dataTestAttrs = n, !.initialElementCount = n, !.reloadElementCount = n ]

DataTestScored(cls, principle, n, metrics, consumer) ==
  /\ phase' = "dataTest"
  /\ out' = [ scorer |-> cls, principle |-> principle, dataTest |-> n,
              metrics |-> metrics, budgets |-> BudgetsOf(cls)[principle],
              consumer |-> consumer ]
  /\ UNCHANGED runVars

\* analyzeObservability: Math.min(25, Math.floor(dataTestElements * 2.5))
AnalyzeObservabilityDataTest ==
  /\ Idle
  /\ \E n \in DataTestCounts :
       DataTestScored("complete", "observability", n,
         analyzeObservabilityMetrics(ObserveDataTest(n, "observability")), 2)

\* analyzeSmallness: Math.min(35, testableElements * 3)
AnalyzeSmallnessDataTest ==
  /\ Idle
  /\ \E n \in DataTestCounts :
       DataTestScored("complete", "smallness", n,
         analyzeSmallnessMetrics(ObserveDataTest(n, "smallness")), 2)

\* analyzeDecomposability: Math.min(35, (isolatedElements * 2) + (forms * 5))
AnalyzeDecomposabilityDataTest ==
  /\ Idle
  /\ \E n \in DataTestCounts :
       DataTestScored("complete", "decomposability", n,
         analyzeDecomposabilityMetrics(ObserveDataTest(n, "decomposability")), 2)

\* QuickTestabilityScorer.scoreObservability: Math.min(40, Math.floor(dataTestElements / 2))
QuickScoreObservabilityDataTest ==
  /\ Idle
  /\ \E n \in DataTestCounts :
       DataTestScored("quick", "observability", n,
         Rs(quickObservabilityMetrics(ObserveDataTest(n, "observability"))), 1)

\* QuickTestabilityScorer.scoreDecomposability: Math.min(20, Math.floor(isolatedElements / 4))
QuickScoreDecomposabilityDataTest ==
  /\ Idle
  /\ \E n \in DataTestCounts :
       DataTestScored("quick", "decomposability", n,
         Rs(quickDecomposabilityMetrics(ObserveDataTest(n, "decomposability"))), 3)

\* TestabilityScorer.scoreObservability: Math.min(25, Math.floor(dataTestElements / 3))
ScoreObservabilityDataTest ==
  /\ Idle
  /\ \E n \in DataTestCounts :
       DataTestScored("scorer", "observability", n,
         Rs(scoreObservabilityMetrics(ObserveDataTest(n, "observability"))), 5)

\* TestabilityScorer.scoreAlgorithmicStability: Math.min(35, Math.floor(dataTestAttrs / 2))
ScoreAlgorithmicStabilityDataTest ==
  /\ Idle
  /\ \E n \in DataTestCounts :
       DataTestScored("scorer", "algorithmicStability", n,
         Rs(scoreAlgorithmicStabilityMetrics(ObserveDataTest(n, "algorithmicStability"))), 2)

NextDataTest ==
  \/ AnalyzeObservabilityDataTest \/ AnalyzeSmallnessDataTest
  \/ AnalyzeDecomposabilityDataTest
  \/ QuickScoreObservabilityDataTest \/ QuickScoreDecomposabilityDataTest
  \/ ScoreObservabilityDataTest \/ ScoreAlgorithmicStabilityDataTest

SpecDataTest == Init /\ [][NextDataTest]_vars

(***************************************************************************)
(* Properties of the data-test sub-metrics (SpecDataTest).                 *)
(***************************************************************************)
DataTestReturned == phase = "dataTest"

\* the sub-metric that consumes the data-test count, and its budget
ConsumerValue(f) == f.metrics[f.consumer]
ConsumerBudget(f) == f.budgets[f.consumer]

\* the number of data-test elements from which the sub-metric is at its budget
CapCount(cls, principle) ==
  CASE cls = "complete" /\ principle = "observability" -> 10
    [] cls = "complete" /\ principle = "smallness" -> 12
    [] cls = "complete" /\ principle = "decomposability" -> 18
    [] cls = "quick" /\ principle = "observability" -> 80
    [] cls = "quick" /\ principle = "decomposability" -> 80
    [] cls = "scorer" /\ principle = "observability" -> 75
    [] cls = "scorer" /\ principle = "algorithmicStability" -> 70

\* what the sub-metric returns for 50 data-test elements
ValueAtFifty(cls, principle) ==
  CASE cls = "complete" /\ principle = "observability" -> 25
    [] cls = "complete" /\ principle = "smallness" -> 35
    [] cls = "complete" /\ principle = "decomposability" -> 35
    [] cls = "quick" /\ principle = "observability" -> 25
    [] cls = "quick" /\ principle = "decomposability" -> 12
    [] cls = "scorer" /\ principle = "observability" -> 16
    [] cls = "scorer" /\ principle = "algorithmicStability" -> 25

PresenceMetrics(cls, principle) ==
  CASE cls = "complete" /\ principle = "observability" -> {1, 3, 5}
    [] cls = "complete" /\ principle = "controllability" -> {1, 3}
    [] cls = "complete" /\ principle = "algorithmicStability" -> {1}
    [] cls = "complete" /\ principle = "unbugginess" -> {2}
    [] cls = "complete" /\ principle = "similarity" -> {2, 3}
    [] cls = "quick" /\ principle = "observability" -> {2}
    [] cls = "scorer" /\ principle = "observability" -> {1, 2, 3, 4}
    [] cls = "scorer" /\ principle = "controllability" -> {1, 2, 3}
    [] cls = "scorer" /\ principle = "algorithmicSimplicity" -> {1, 3}
    [] cls = "scorer" /\ principle = "algorithmicStability" -> {1, 3}
    [] cls = "scorer" /\ principle = "unbugginess" -> {3}
    [] cls = "scorer" /\ principle = "similarity" -> {2}
    [] cls = "ai" /\ principle = "observability" -> {2, 3, 5}
    [] cls = "ai" /\ principle = "controllability" -> {1, 2, 3}
    [] OTHER -> {}

\* C19: a presence-style sub-metric returns a positive value whatever its
\* yes/no observations are.
C19_PresenceNeverZero ==
  ScoreReturned /\ ~out.failed =>
    \A k \in PresenceMetrics(out.scorer, out.principle) :
      RLt(R(0), out.metrics[k])

\* analyzeSimilarity gives 0 points for technology and 0 for conventions on a
\* page showing none of the markers it looks for
C19_Witness ==
  /\ ScoreReturned /\ ~out.failed /\ out.scorer = "complete"
  /\ out.principle = "similarity"
  /\ out.metrics[2] = R(0) /\ out.metrics[3] = R(0)

(***************************************************************************)
(* runCompleteAnalysis on pages whose counts are not all equal: one link   *)
(* more than there are buttons, and an alt text on every second image.     *)
(***************************************************************************)
ObserveUneven(pg, principle) ==
  [ Observe(pg, principle) EXCEPT !.links = pg.count + 1,
                                  !.altTexts = pg.count \div 2 ]

UnevenObservations ==
  [ pg \in Pages |-> [ p \in Principles |-> ObserveUneven(pg, p) ] ]

RunCompleteAnalysisUneven == CompleteAnalysis(UnevenObservations)

NextUneven == RunCompleteAnalysisUneven

SpecUneven == Init /\ [][NextUneven]_vars

(***************************************************************************)
(* Properties of the numbers in a result (SpecUneven).                     *)
(***************************************************************************)
\* a number in lowest terms is an integer when its denominator is 1
IsInteger(x) == x[2] = 1

\* C20: every principle score and the overall score of a run's result are
\* integers.
C20_ScoresAreIntegers ==
  \A i \in Runs :
    /\ returned[i].overallScore \in Int
    /\ \A p \in DOMAIN returned[i].principleScores :
         IsInteger(returned[i].principleScores[p])

\* a result with controllability 16.5 (1.5 points for its single link) and an
\* integer overall score
C20_Witness ==
  \E i \in Runs :
    /\ returned[i].page = EmptyPage
    /\ returned[i].principleScores["controllability"] = << 33, 2 >>
    /\ returned[i].overallScore \in 0..100

(***************************************************************************)
(* The comparative failure analysis: for each problematic user the test    *)
(* awaits analyzer.runCompleteAnalysis raced against a timer and records   *)
(* an entry in its results map.  The map is kept in out, in user order;    *)
(* call is the index in returned of the result an entry was made from      *)
(* (0: the timer won).  A call the timer beat is not followed further      *)
(* here; SpecOverlap does that.                                            *)
(***************************************************************************)
\* problematicUsers.length
MaxUsers == 3

\* result?.<key> || fallback: a key the object lacks reads as undefined, and
\* a present 0 gives the fallback 0 as well
ReadOr(result, key, fallback) ==
  IF key \in DOMAIN result THEN result[key] ELSE fallback

ComparisonResults == IF phase = "compared" THEN out ELSE << >>

\* the entry for the call before has been written
Recorded ==
  \/ Len(returned) = 0
  \/ \E k \in 1..Len(ComparisonResults) : ComparisonResults[k].call = Len(returned)

\* analyzer.runCompleteAnalysis(page, user.name) returns before the timer
CompareCall ==
  /\ Recorded
  /\ Len(ComparisonResults) < MaxUsers
  /\ RunCompleteAnalysis

\* results[user.name] = { status: 'completed', score: result?.overall || 0,
\*                        duration, principles: result?.principles || {} }
CompareCompleted ==
  /\ ~Recorded
  /\ LET result == returned[Len(returned)]
     IN out' = Append(ComparisonResults,
                 [ status |-> "completed", call |-> Len(returned),
                   score |-> ReadOr(result, "overall", 0),
                   principles |-> ReadOr(result, "principles", << >>) ])
  /\ phase' = "compared"
  /\ UNCHANGED runVars

\* the timer rejects first: results[user.name] = { status: 'failed', score: 0 }
CompareFailed ==
  /\ Recorded
  /\ Len(ComparisonResults) < MaxUsers
  /\ out' = Append(ComparisonResults,
              [ status |-> "failed", call |-> 0, score |-> 0,
                principles |-> << >> ])
  /\ phase' = "compared"
  /\ UNCHANGED runVars

NextCompare == CompareCall \/ CompareCompleted \/ CompareFailed

SpecCompare == Init /\ [][NextCompare]_vars

(***************************************************************************)
(* Properties of the comparative failure analysis (SpecCompare).           *)
(***************************************************************************)
\* C21: the score and the per-principle values recorded for a user whose
\* runCompleteAnalysis call completed equal the overallScore and the
\* principleScores that call returned.
C21_RecordedEqualsReturned ==
  \A k \in 1..Len(ComparisonResults) :
    LET entry == ComparisonResults[k]
    IN entry.status = "completed" /\ entry.call \in Runs
         => /\ entry.score = returned[entry.call].overallScore
            /\ entry.principles = returned[entry.call].principleScores

\* an entry recorded for a call that returned a positive overall score and
\* ten principle scores
C21_Witness ==
  \E k \in 1..Len(ComparisonResults) :
    LET entry == ComparisonResults[k]
    IN /\ entry.status = "completed" /\ entry.call \in Runs
       /\ returned[entry.call].overallScore > 0
       /\ DOMAIN returned[entry.call].principleScores = Principles

(***************************************************************************)
(* AITestUtils.smartInteract(locator, action, value, options), one attempt *)
(* at a time.  The call is kept in out:                                    *)
(*   attempt   the loop variable: the attempt being made, or made last     *)
(*   waits     the delays waited so far, one before each retry             *)
(*   status    "attempting", "returned" or "thrown"                        *)
(*   message   what the thrown error says: the action and the attempts     *)
(***************************************************************************)
\* the largest options.retries a caller passes
MaxRetriesOption == 4

\* options.retries || 3
DefaultRetries == 3

\* options.delay || 1000
DefaultDelay == 1000

\* options.<key> || fallback: an absent key and a 0 both give the fallback
OrDefault(options, key, fallback) ==
  IF key \in DOMAIN options /\ options[key] # 0 THEN options[key] ELSE fallback

\* the options objects callers pass: {}, { retries }, { delay }, both
InteractOptions ==
       { [ k \in {} |-> 0 ] }
  \cup { [ retries |-> r ] : r \in 0..MaxRetriesOption }
  \cup { [ delay |-> d ] : d \in {0, 500, 2000} }
  \cup { [ retries |-> r, delay |-> d ] : r \in 0..MaxRetriesOption, d \in {0, 500, 2000} }

\* the cases of the switch; any other action reaches its default branch
KnownActions == {"click", "fill", "select", "check", "uncheck"}

Interaction(options, action, maxRetries, retryDelay, attempt, waits, status, message) ==
  [ options |-> options, action |-> action, maxRetries |-> maxRetries,
    retryDelay |-> retryDelay, attempt |-> attempt, waits |-> waits,
    status |-> status, message |-> message ]

Interacting == phase = "interact"

\* the call evaluates its defaults and enters the loop
SmartInteract ==
  /\ Idle
  /\ \E options \in InteractOptions, action \in {"click", "fill", "hover"} :
       LET maxRetries == OrDefault(options, "retries", DefaultRetries)
           retryDelay == OrDefault(options, "delay", DefaultDelay)
       IN out' = Interaction(options, action, maxRetries, retryDelay,
                             IF 1 <= maxRetries THEN 1 ELSE 0, << >>,
                             IF 1 <= maxRetries THEN "attempting" ELSE "returned",
                             << >>)
  /\ phase' = "interact"
  /\ UNCHANGED runVars

\* waitFor and the action succeed: return
AttemptSucceeds ==
  /\ Interacting /\ out.status = "attempting"
  /\ out.action \in KnownActions
  /\ out' = [ out EXCEPT !.status = "returned" ]
  /\ UNCHANGED << phase, heap, aiScorer, analyzer, scorer, returned, calls, aiDebugger >>

\* waitFor or the action throws, or the action is unknown: the catch block
AttemptFails ==
  /\ Interacting /\ out.status = "attempting"
  /\ IF out.attempt = out.maxRetries
     THEN out' = [ out EXCEPT !.status = "thrown",
                              !.message = << out.action, out.maxRetries >> ]
     ELSE out' = [ out EXCEPT !.waits = Append(@, out.retryDelay),
                              !.attempt = @ + 1 ]
  /\ UNCHANGED << phase, heap, aiScorer, analyzer, scorer, returned, calls, aiDebugger >>

NextInteract == SmartInteract \/ AttemptSucceeds \/ AttemptFails

SpecInteract == Init /\ [][NextInteract]_vars

(***************************************************************************)
(* Properties of smartInteract (SpecInteract).                             *)
(***************************************************************************)
\* the retries the caller asked for: options.retries, 3 when it is not given
RetriesAsked == IF "retries" \in DOMAIN out.options THEN out.options.retries ELSE 3

\* C22: smartInteract makes at most options.retries attempts (3 when the
\* option is not given), makes no attempt after a successful one, and when
\* every attempt failed throws 'Failed to <action> after <retries> attempts'.
C22_AtMostRetriesAttempts ==
  Interacting =>
    /\ out.attempt <= RetriesAsked
    /\ out.status = "thrown"
         => out.attempt = RetriesAsked /\ out.message = << out.action, RetriesAsked >>

\* a call given retries: 0 that has made an attempt
C22_Witness ==
  /\ Interacting
  /\ "retries" \in DOMAIN out.options /\ out.options.retries = 0
  /\ out.attempt >= 1

\* C23: the delay smartInteract waits before a retry is longer than the delay
\* it waited before the retry before.
C23_DelaysGrow ==
  Interacting =>
    \A k \in 2..Len(out.waits) : out.waits[k] > out.waits[k - 1]

\* a call that has waited before a second retry
C23_Witness == Interacting /\ Len(out.waits) >= 2

(***************************************************************************)
(* AITestUtils.smartLocator(page, description).  A description is given by *)
(* whether it is one of the special cases (username, password, login       *)
(* button) and whether new RegExp(description, 'i') accepts it; a page by  *)
(* the set of strategies whose locator matches an element on it.  The      *)
(* value returned is the number of the strategy whose locator it is: 0 for *)
(* a special case's selector, 11 for the text fallback after the loop.     *)
(***************************************************************************)
\* strategies.length
NumStrategies == 10

\* the strategies that build new RegExp(description, 'i')
RegExpStrategies == 6

\* strategy(): page.getByRole, getByLabel, ..., page.locator build a Locator
\* object without looking at the page; new RegExp throws on a bad pattern
Strategy(i, description) ==
  IF i <= RegExpStrategies /\ ~description.regExpValid THEN "throws" ELSE "locator"

\* for (const strategy of strategies) { try { const locator = strategy();
\*   if (locator) return locator; } catch (error) { } }  return text locator
smartLocator(matching, description) ==
  IF description.special THEN 0
  ELSE LET truthy == { i \in 1..NumStrategies : Strategy(i, description) = "locator" }
       IN IF truthy = {} THEN NumStrategies + 1
          ELSE CHOOSE i \in truthy : \A j \in truthy : i <= j

Descriptions == [ special : BOOLEAN, regExpValid : BOOLEAN ]

Located(matching, description, strategy) ==
  [ matching |-> matching, description |-> description, strategy |-> strategy ]

SmartLocator ==
  /\ Idle
  /\ \E matching \in SUBSET (1..NumStrategies), description \in Descriptions :
       out' = Located(matching, description, smartLocator(matching, description))
  /\ phase' = "located"
  /\ UNCHANGED runVars

NextLocator == SmartLocator

SpecLocator == Init /\ [][NextLocator]_vars

(***************************************************************************)
(* Properties of smartLocator (SpecLocator).                               *)
(***************************************************************************)
LocatorReturned == phase = "located"

\* C24: for a description outside the special cases smartLocator returns the
\* locator of the first strategy of its list that matches an element on the
\* page.
C24_FirstMatchingStrategy ==
  LocatorReturned /\ ~out.description.special /\ out.matching # {}
    => /\ out.strategy \in out.matching
       /\ \A j \in out.matching : out.strategy <= j

\* a call on a page where the first strategy matches nothing and a later one
\* matches
C24_Witness ==
  /\ LocatorReturned /\ ~out.description.special
  /\ 1 \notin out.matching /\ out.matching # {}
  /\ out.strategy \in 1..NumStrategies

(***************************************************************************)
(* AITestabilityScorer.classifyElementCategory(testId, tagName, role).  A  *)
(* testId is given by the set of keywords its lower-case form includes.    *)
(***************************************************************************)
\* const categories = { navigation: [...], form: [...], ... }, in key order
CategoryKeywords ==
  << [ category |-> "navigation", keywords |-> {"menu", "nav", "link", "burger"} ],
     [ category |-> "form",
       keywords |-> {"username", "password", "email", "input", "submit", "login"} ],
     [ category |-> "action", keywords |-> {"button", "add", "remove", "click", "submit"} ],
     [ category |-> "display", keywords |-> {"container", "list", "item", "text", "image"} ],
     [ category |-> "feedback", keywords |-> {"error", "success", "warning", "message"} ],
     [ category |-> "control", keywords |-> {"toggle", "switch", "select", "option"} ] >>

Keywords == UNION { CategoryKeywords[i].keywords : i \in 1..Len(CategoryKeywords) }

\* const tagCategories = { button: 'action', input: 'form', ... }
tagCategories ==
  [ button |-> "action", input |-> "form", select |-> "form",
    a |-> "navigation", img |-> "display", div |-> "display" ]

classifyElementCategory(testId, tagName, role) ==
  LET hits == { i \in 1..Len(CategoryKeywords) : CategoryKeywords[i].keywords \cap testId # {} }
  IN IF hits # {}
     THEN CategoryKeywords[CHOOSE i \in hits : \A j \in hits : i <= j].category
     ELSE IF tagName \in DOMAIN tagCategories THEN tagCategories[tagName] ELSE "unknown"

\* the keywords at most two of which a testId includes
TestIds == { {} } \cup { { k1, k2 } : k1 \in Keywords, k2 \in Keywords }

TagNames == {"button", "input", "select", "a", "img", "div", "span", "li"}

Roles == {"", "button"}

ClassifyElementCategory ==
  /\ Idle
  /\ \E testId \in TestIds, tagName \in TagNames, role \in Roles :
       out' = [ testId |-> testId, tagName |-> tagName, role |-> role,
                category |-> classifyElementCategory(testId, tagName, role) ]
  /\ phase' = "classified"
  /\ UNCHANGED runVars

NextClassify == ClassifyElementCategory

SpecClassify == Init /\ [][NextClassify]_vars

(***************************************************************************)
(* Properties of classifyElementCategory (SpecClassify).                   *)
(***************************************************************************)
Classified == phase = "classified"

\* C25: classifyElementCategory returns one of 'navigation', 'form',
\* 'action', 'display', 'feedback', 'control' for every testId, tagName and
\* role.
C25_OneOfSixCategories ==
  Classified =>
    out.category \in {"navigation", "form", "action", "display", "feedback", "control"}

\* an element whose testId includes no keyword and whose tag is not in the
\* tag table
C25_Witness ==
  /\ Classified
  /\ out.testId = {} /\ out.tagName = "span"

(***************************************************************************)
(* Properties of the debug sessions (Spec).                                *)
(***************************************************************************)
\* the finished runs of the two classes that start a debug session
SessionRuns ==
  { i \in 1..Len(returned) : returned[i].scorer \in {"ai", "complete"} }

\* C26: the debug session a runCompleteAnalysis or runAIAssessment started
\* has been ended when the run has finished, however it finished, so
\* aiDebugger.debugSessions holds no session of a finished run.
C26_NoSessionOfFinishedRun ==
  \A i \in SessionRuns : i \notin aiDebugger.debugSessions

\* a run that started a session has finished with a failed login
C26_Witness ==
  \E i \in SessionRuns : returned[i].error = "Login failed"

(***************************************************************************)
(* The reports over the results of runCompleteAnalysis: the text of        *)
(* generateComprehensiveReport and the recommendations section of the HTML *)
(* report.  A report is given by the recommendation entries it prints, in  *)
(* the order it prints them; out.of is the number of results it was made   *)
(* from.                                                                   *)
(***************************************************************************)
RECURSIVE FlatMapRecommendations(_, _)
\* successfulResults.flatMap(r => r.aiRecommendations || [])
FlatMapRecommendations(results, arrays) ==
  IF results = << >> THEN << >>
  ELSE (IF Head(results).recommendations = 0 THEN << >>
        ELSE arrays[Head(results).recommendations])
       \o FlatMapRecommendations(Tail(results), arrays)

\* allRecommendations.filter(r => r.priority === priority)
WithPriority(recommendations, priority) ==
  SelectSeq(recommendations, LAMBDA rec : rec.priority = priority)

\* the entries under CRITICAL PRIORITY and under HIGH PRIORITY
generateComprehensiveReport(results, arrays) ==
  LET successfulResults == SuccessfulResults(results)
      allRecommendations == FlatMapRecommendations(successfulResults, arrays)
  IN IF Len(successfulResults) = 0 THEN << >>
     ELSE WithPriority(allRecommendations, "Critical")
            \o WithPriority(allRecommendations, "High")

\* processResults: the recommendations of the report data
processRecommendations(results, arrays) ==
  LET allRecommendations == FlatMapRecommendations(SuccessfulResults(results), arrays)
  IN [ all |-> allRecommendations,
       critical |-> WithPriority(allRecommendations, "Critical"),
       high |-> WithPriority(allRecommendations, "High") ]

\* the cards of recommendations.critical, then those of recommendations.high
buildRecommendationsSection(recommendations) ==
  recommendations.critical \o recommendations.high

Reported(report, entries) ==
  /\ phase' = "reported"
  /\ out' = [ report |-> report, of |-> Len(returned), entries |-> entries ]
  /\ UNCHANGED runVars

GenerateComprehensiveReport ==
  /\ Len(returned) > 0
  /\ Reported("text", generateComprehensiveReport(returned, heap))

\* new HTMLReportGenerator(results).generateReport(): processResults in the
\* constructor, then the section built from the report data
BuildRecommendationsSection ==
  /\ Len(returned) > 0
  /\ Reported("html", buildRecommendationsSection(processRecommendations(returned, heap)))

NextReport == \/ RunCompleteAnalysis
              \/ GenerateComprehensiveReport
              \/ BuildRecommendationsSection

SpecReport == Init /\ [][NextReport]_vars

(***************************************************************************)
(* Properties of the reports (SpecReport).                                 *)
(***************************************************************************)
ReportMade == phase = "reported"

\* the entries of sequence s
Entries(s) == { s[k] : k \in 1..Len(s) }

\* the recommendations of the successful results a report was made from
Recommended ==
  UNION { Entries(heap[returned[i].recommendations]) : i \in Runs \cap 1..out.of }

\* C27: every recommendation of a successful result, whatever its priority,
\* appears in the text of generateComprehensiveReport and in the
\* recommendations section of the HTML report.
C27_EveryRecommendationReported ==
  ReportMade => Recommended \subseteq Entries(out.entries)

\* a report made from a successful result with a Medium recommendation
C27_Witness ==
  /\ ReportMade
  /\ \E rec \in Recommended : rec.priority = "Medium"

(***************************************************************************)
(* The grade ladders side by side: the three getGrade methods and the      *)
(* ladder generateReport of run-testability-scorer applies to the overall  *)
(* score of a stored report, all on one score.                             *)
(***************************************************************************)
\* const grade = overall >= 90 ? 'A' : overall >= 80 ? 'B' : ...
generateReportGrade(overall) ==
  IF overall >= 90 THEN "A"
  ELSE IF overall >= 80 THEN "B"
  ELSE IF overall >= 70 THEN "C"
  ELSE IF overall >= 60 THEN "D"
  ELSE "F"

GradeOnEveryLadder ==
  /\ Idle
  /\ \E score \in 0..100 :
       out' = [ score |-> score,
                complete |-> getGrade(score),
                quick |-> quickGetGrade(score),
                scorer |-> scorerGetGrade(score),
                report |-> generateReportGrade(score) ]
  /\ phase' = "graded"
  /\ UNCHANGED runVars

NextGrades == GradeOnEveryLadder

SpecGrades == Init /\ [][NextGrades]_vars

(***************************************************************************)
(* Properties of the grade ladders (SpecGrades).                           *)
(***************************************************************************)
GradedOnEveryLadder == phase = "graded"

\* C28: for every integer score 0..100 the getGrade methods of
\* ComprehensiveTestabilityAnalyzer, QuickTestabilityScorer and
\* TestabilityScorer and the ladder of generateReport assign the same letter.
C28_SameLetterOnEveryLadder ==
  GradedOnEveryLadder =>
    /\ GradeLetter(out.complete) = out.report
    /\ GradeLetter(out.quick) = out.report
    /\ GradeLetter(out.scorer) = out.report
    /\ out.report \in {"A", "B", "C", "D", "F"}

\* the boundary score 90 graded A, in its three spellings, on all four ladders
C28_Witness ==
  /\ GradedOnEveryLadder /\ out.score = 90
  /\ out.complete = "A (Excellent)" /\ out.quick = "A (Excellent)"
  /\ out.scorer = "(A)" /\ out.report = "A"

(***************************************************************************)
(* analyzeDataTestAttributes on a list of data-test elements and on the    *)
(* same list with one more element.                                        *)
(***************************************************************************)
\* the longest list before an element is added
MaxListLen == 3

DataTestElements ==
  [ category : {"form", "action", "unknown"}, hasSeparator : BOOLEAN, hasError : {FALSE} ]

DataTestListsUpTo(n) == UNION { [ 1..len -> DataTestElements ] : len \in 0..n }

AnalyzeDataTestAttributesTwice ==
  /\ Idle
  /\ \E elements \in DataTestListsUpTo(MaxListLen), element \in DataTestElements :
       out' = [ elements |-> elements, added |-> element,
                before |-> analyzeDataTestAttributes(elements),
                after |-> analyzeDataTestAttributes(Append(elements, element)) ]
  /\ phase' = "added"
  /\ UNCHANGED runVars

NextAdded == AnalyzeDataTestAttributesTwice

SpecAdded == Init /\ [][NextAdded]_vars

(***************************************************************************)
(* Properties of analyzeDataTestAttributes (SpecAdded).                    *)
(***************************************************************************)
ElementAdded == phase = "added"

\* C29: adding a data-test element to a list, the empty list included, never
\* lowers the score analyzeDataTestAttributes returns.
C29_AddingNeverLowers ==
  ElementAdded => out.after >= out.before

\* an element was added to the empty list
C29_Witness ==
  /\ ElementAdded /\ out.elements = << >>
  /\ out.before = 5 /\ out.after \in 0..30

(***************************************************************************)
(* The sub-scores scoreAIControllability, scoreAIAlgorithmicSimplicity,    *)
(* scoreAIExplainability and scoreAIDecomposability add up, on one page,   *)
(* next to the values each sub-score takes over all observations.          *)
(***************************************************************************)
SubScorePrinciples ==
  {"controllability", "algorithmicSimplicity", "explainability", "decomposability"}

\* the sub-scores the scoreAI* method of a principle adds up
SubScores(principle, o) ==
  CASE principle = "controllability" -> scoreAIControllabilityMetrics(o)
    [] principle = "algorithmicSimplicity" -> scoreAIAlgorithmicSimplicityMetrics(o)
    [] principle = "explainability" -> scoreAIExplainabilityMetrics(o)
    [] principle = "decomposability" -> scoreAIDecomposabilityMetrics(o)

\* the observations the method can make
SubScoreInputs(principle) ==
  CASE principle = "controllability" -> ScoreAIControllabilityInputs
    [] principle = "algorithmicSimplicity" -> ScoreAIAlgorithmicSimplicityInputs
    [] principle = "explainability" -> ScoreAIExplainabilityInputs
    [] principle = "decomposability" -> ScoreAIDecomposabilityInputs

\* SubScoreValues[principle][k]: the values sub-score k takes over all the
\* observations the method can make
SubScoreValues ==
  [ principle \in SubScorePrinciples |->
      LET tuples == { SubScores(principle, o) : o \in SubScoreInputs(principle) }
      IN [ k \in 1..Len(AIBudgets[principle]) |-> { t[k] : t \in tuples } ] ]

\* sub-score metric of a principle is computed on page pg
SurveySubScore ==
  /\ Idle
  /\ \E principle \in SubScorePrinciples, pg \in Pages :
       /\ pg.failing # principle
       /\ \E k \in 1..Len(AIBudgets[principle]) :
            out' = [ principle |-> principle, metric |-> k, page |-> pg,
                     value |-> SubScores(principle, Observe(pg, principle))[k],
                     values |-> SubScoreValues[principle][k] ]
  /\ phase' = "subScore"
  /\ UNCHANGED runVars

NextSubScore == SurveySubScore

SpecSubScore == Init /\ [][NextSubScore]_vars

(***************************************************************************)
(* Properties of the sub-scores (SpecSubScore).                            *)
(***************************************************************************)
SubScoreSurveyed == phase = "subScore"

\* C30: each sub-score of the four methods depends on the page: there are two
\* pages on which it differs, so whatever it is on one page, it is something
\* else on some other.
C30_SubScoreDependsOnPage ==
  SubScoreSurveyed => \E v \in out.values : v # out.value

\* the first sub-score of scoreAIExplainability on a page
C30_Witness ==
  /\ SubScoreSurveyed
  /\ out.principle = "explainability" /\ out.metric = 1
  /\ out.value \in out.values

=============================================================================
